---- MODULE Spec2Model ----
(***************************************************************************)
(* A model of spectrum: a browser instance driven over the Chrome DevTools *)
(* Protocol.  These layers are modelled, each from its source:              *)
(*   - the protocol transport (_send_cdp_command, _send_cdp_command_on_ws), *)
(*     one step per received frame                          (WireSpec);     *)
(*   - the target directory lookup (_target_websocket_url)  (LookupSpec);   *)
(*   - the instance lifecycle (start, goto, content, close) of the blocking *)
(*     and of the asyncio binding, one step per blocking call (Spec);       *)
(*   - the strategy pipeline (run_before/after_navigation)  (PipeSpec);     *)
(*   - the strategy registry (merge_strategies)             (MergeSpec);    *)
(*   - the detection functions of recon (detect_waf, ...)   (DetectSpec);   *)
(*   - the recon strategy (ReconStrategy's two hooks)       (ReconSpec);    *)
(*   - the PerimeterX strategy (PerimeterXStrategy's hooks) (PxSpec);       *)
(*   - the profile directory (resolve_profile_dir)          (ProfileSpec).  *)
(* The browser, its HTTP endpoint and the operating system are the          *)
(* environment: every answer they can give is a nondeterministic choice.    *)
(***************************************************************************)
EXTENDS Integers, Sequences, FiniteSets, TLC

\* ------------------------------------------------------------------ bounds

\* Largest id a frame sent by the browser carries (ids above 1 are stale or foreign).
MaxFrameId == 3
\* Most commands the transport model sends on one socket.
MaxCmds == 2
\* Most target descriptors in one /json/list answer.
MaxTargets == 2
\* Most polls of /json/version that fit before the startup deadline.
MaxPolls == 3
\* Most strategies in a list handed to the pipeline.
MaxHooks == 2
\* Most default strategies and most override entries given to merge_strategies
\* (and one more than the most additions).
MaxMerge == 2
\* Most headers of a response, and most pieces of an HTML sample.
MaxParts == 2
\* The cap on the HTML sample that preflight keeps (max_html_bytes), in
\* characters; the program's default is 200,000.
MaxHtmlBytes == 4
\* Most pieces of a configured profile directory.
MaxSegs == 4

\* ------------------------------------------------------------------ values

\* Python's None, and an absent key of a JSON object (dict.get gives None).
None == "None"

TargetIds == {"t1", "t2"}
WsUrls == {"w1", "w2"}
NodeIds == {"n1", "n2"}
Htmls == {"", "h1", "h2"}
Errors == {"e1", "e2"}

\* A URL is a sequence of text pieces, so that str.startswith is a real prefix test.
NoUrl == <<None>>
EmptyUrl == <<>>
UrlA == <<"a">>
UrlB == <<"b">>
UrlAX == <<"a", "/x">>
AboutBlank == <<"about:blank">>
Urls == {UrlA, UrlB}
DocumentUrls == {NoUrl, EmptyUrl, AboutBlank, UrlA, UrlAX, UrlB}

\* str.startswith(prefix)
StartsWith(s, prefix) ==
    /\ Len(prefix) <= Len(s)
    /\ SubSeq(s, 1, Len(prefix)) = prefix

\* Python truthiness of an optional string, of an optional URL, of a node id.
TruthyStr(v) == v # None /\ v # ""
TruthyUrl(u) == u # NoUrl /\ u # EmptyUrl
TruthyNode(n) == n # None /\ n # "0"

\* The result object of a reply, reduced to the keys the program reads:
\* targetId (Target.createTarget), root.nodeId and root.documentURL
\* (DOM.getDocument), outerHTML (DOM.getOuterHTML).  None: the key is absent.
Payload(t, n, d, h) == [targetId |-> t, nodeId |-> n, documentURL |-> d, outerHTML |-> h]

\* The empty JSON object {}.
EmptyObj == Payload(None, None, NoUrl, None)

TargetPayloads == {Payload(t, None, NoUrl, None) : t \in TargetIds}
DocumentPayloads ==
    {Payload(None, n, d, None) : n \in NodeIds \cup {None, "0"}, d \in {NoUrl, AboutBlank, UrlA, UrlAX, UrlB}}
HtmlPayloads == {Payload(None, None, NoUrl, h) : h \in Htmls}

\* ------------------------------------------------------------------ frames

\* One frame read from the socket.  raw_empty: recv returned an empty string.
\* id 0: the frame has no "id" key (an event).  has_error / has_result: the
\* key is present.
Frame(e, i, he, err, hr, res, m, nm) ==
    [raw_empty |-> e, id |-> i, has_error |-> he, error |-> err,
     has_result |-> hr, result |-> res, method |-> m, name |-> nm]

EmptyFrame == Frame(TRUE, 0, FALSE, None, FALSE, EmptyObj, None, None)

\* Replies: an id, an optional error, an optional result (possibly both).
ReplyFrames(payloads) ==
    {Frame(FALSE, i, FALSE, None, FALSE, EmptyObj, None, None) : i \in 1..MaxFrameId}
    \cup {Frame(FALSE, i, FALSE, None, TRUE, p, None, None) : i \in 1..MaxFrameId, p \in payloads}
    \cup {Frame(FALSE, i, TRUE, err, FALSE, EmptyObj, None, None) : i \in 1..MaxFrameId, err \in Errors}
    \cup {Frame(FALSE, i, TRUE, err, TRUE, p, None, None) : i \in 1..MaxFrameId, err \in {"e1"}, p \in payloads}

\* Event notifications: a method and no id.
EventFrames ==
    {Frame(FALSE, 0, FALSE, None, FALSE, EmptyObj, "Page.loadEventFired", None)}
    \cup {Frame(FALSE, 0, FALSE, None, FALSE, EmptyObj, "Page.lifecycleEvent", nm) : nm \in {"networkIdle", "load"}}
    \cup {Frame(FALSE, 0, TRUE, "e1", FALSE, EmptyObj, "Inspector.detached", None)}

Frames(payloads) == {EmptyFrame} \cup EventFrames \cup ReplyFrames(payloads)

\* ------------------------------------------------------------------ transport

\* What one pass of the receive loop does with a frame.
Continue == [act |-> "continue", error |-> None, value |-> EmptyObj]
Raise(err) == [act |-> "raise", error |-> err, value |-> EmptyObj]
Return(v) == [act |-> "return", error |-> None, value |-> v]

\* message.get("result", {})
ResultOf(message) == IF message.has_result THEN message.result ELSE EmptyObj

\* Mutant: the first reply that carries a result is taken, whatever its id.
OnFrame_AnyReply(message, message_id) ==
    IF message.raw_empty THEN Continue
    ELSE IF message.id = 0 THEN Continue
    ELSE IF message.has_error THEN Raise(message.error)
    ELSE Return(ResultOf(message))

\* Mutant: a result, when present, wins over the error of the same reply.
OnFrame_ResultFirst(message, message_id) ==
    IF message.raw_empty THEN Continue
    ELSE IF message.id # message_id THEN Continue
    ELSE IF message.has_result THEN Return(message.result)
    ELSE IF message.has_error THEN Raise(message.error)
    ELSE Return(EmptyObj)

\* The body of the receive loop of _send_cdp_command and _send_cdp_command_on_ws.
OnFrame(message, message_id) ==
    IF message.raw_empty THEN Continue
    ELSE IF message.id # message_id THEN Continue
    ELSE IF message.has_error THEN Raise(message.error)
    ELSE Return(ResultOf(message))

\* Mutant: the id is handed back as it came.
NextMessageId_Same(message_id) == message_id

\* The id _send_cdp_command_on_ws hands back for the next command on the socket.
NextMessageId(message_id) == message_id + 1

\* ------------------------------------------------------------------ target directory

\* One descriptor of /json/list: its id, its legacy targetId, its debugger URL.
Entry(i, t, w) == [id |-> i, targetId |-> t, webSocketDebuggerUrl |-> w]
Entries == {Entry(i, t, w) : i \in TargetIds \cup {None}, t \in TargetIds \cup {None}, w \in WsUrls \cup {None}}

RECURSIVE SeqsUpTo(_, _)
SeqsUpTo(S, n) ==
    IF n = 0 THEN {<<>>}
    ELSE LET shorter == SeqsUpTo(S, n - 1) IN
         shorter \cup {Append(q, x) : q \in {r \in shorter : Len(r) = n - 1}, x \in S}

Listings == SeqsUpTo(Entries, MaxTargets)

Found(w) == [kind |-> "result", error |-> None, value |-> w]
LookupError(msg) == [kind |-> "RuntimeError", error |-> msg, value |-> None]

\* entry.get("id") or entry.get("targetId")
EntryId(entry) == IF TruthyStr(entry.id) THEN entry.id ELSE entry.targetId

\* Mutant: a list without the target answers with its first descriptor.
RECURSIVE ScanTargets_FirstAsDefault(_, _, _)
ScanTargets_FirstAsDefault(data, target_id, i) ==
    IF i > Len(data)
    THEN IF Len(data) > 0 /\ TruthyStr(data[1].webSocketDebuggerUrl)
         THEN Found(data[1].webSocketDebuggerUrl)
         ELSE LookupError("Target not found")
    ELSE IF EntryId(data[i]) = target_id
         THEN IF ~TruthyStr(data[i].webSocketDebuggerUrl)
              THEN LookupError("Missing webSocketDebuggerUrl for target")
              ELSE Found(data[i].webSocketDebuggerUrl)
         ELSE ScanTargets_FirstAsDefault(data, target_id, i + 1)

\* The loop of _target_websocket_url over the entries from the i-th on.
RECURSIVE ScanTargets(_, _, _)
ScanTargets(data, target_id, i) ==
    IF i > Len(data) THEN LookupError("Target not found")
    ELSE IF EntryId(data[i]) = target_id
         THEN IF ~TruthyStr(data[i].webSocketDebuggerUrl)
              THEN LookupError("Missing webSocketDebuggerUrl for target")
              ELSE Found(data[i].webSocketDebuggerUrl)
         ELSE ScanTargets(data, target_id, i + 1)

\* _target_websocket_url, given the decoded /json/list answer.
TargetWebsocketUrl(data, target_id) == ScanTargets(data, target_id, 1)

\* What _target_websocket_url can give for a target id, over every listing.
LookupOutcomes == [t \in TargetIds |-> {TargetWebsocketUrl(data, t) : data \in Listings}]

\* ------------------------------------------------------------------ state

VARIABLES
    \* the transport layer on its own (WireSpec)
    w_pc,           \* "idle", "open" (a socket held between commands), "recv"
    w_open,         \* the socket is open
    w_single,       \* the command in flight is _send_cdp_command's (one per socket)
    w_ids,          \* the ids of the commands sent on the socket, in order
    w_message_id,   \* the id of the command in flight (or of the last one)
    w_next,         \* the caller's message_id: the id of its next command
    w_frame,        \* the frame received last for the command
    w_skipped,      \* a reply to another id was discarded while this command waited
    w_out,          \* how the last command ended
    \* the target directory lookup on its own (LookupSpec)
    l_data,         \* the /json/list answer
    l_target_id,    \* the requested target id
    l_out,          \* what _target_websocket_url gave
    \* the instance lifecycle (Spec)
    binding,            \* "sync": sync_spectrum.BrowserInstance, "async": AsyncBrowserInstance
    process,            \* None, or the owned subprocess: "running" or "exited"
    live,               \* how many subprocesses the instance spawned are not known to have exited
    current_target_id,
    current_url,
    pc,                 \* where the operation in flight stands ("idle": none in flight)
    op,                 \* the operation in flight or the last one, its url, the one before it
    before,             \* process, current_target_id, current_url as the operation was called
    out,                \* how the last operation ended
    io,                 \* what the operation did so far: "spawn", "http", "ws"
    signals,            \* the signals the operation sent to the subprocess, in order
    ws_open,            \* the operation holds an open socket
    message_id,         \* the id of the command in flight
    sent,               \* the command sent last
    reply,              \* the result of the reply matched last
    ws_url,             \* the debugger URL the operation resolved
    document,           \* the DOM.getDocument result content extracts from
    node_id,            \* the root node id content read from it
    outer_html,         \* the outerHTML content read from the DOM.getOuterHTML result
    polls,              \* the answers _wait_for_cdp got to its GETs, in order
    passed,             \* the deadlines of the operation that have passed
    last_error,         \* _wait_for_cdp's last_error
    events,             \* the events of interest read so far from the socket the operation holds
    \* the strategy pipeline (PipeSpec)
    p_pc,               \* "idle", "loop", "await" (suspended in a hook), "returned", "raised"
    p_mode,             \* "sync": run_*_navigation, "async": run_*_navigation_async
    p_phase,            \* "before" or "after"
    p_strategies,       \* the strategies argument (config.navigation_strategies)
    p_context,          \* the context argument, reduced to its target_id
    p_i,                \* the position of the for loop in the list
    p_log,              \* the hook calls started, completed and failed, in order
    p_error,            \* the exception the run raised
    p_yielded,          \* another task ran while the run was suspended
    \* merge_strategies on its own (MergeSpec)
    m_pc,               \* "idle", "called" (the arguments given), "returned"
    m_defaults,         \* the defaults argument
    m_overrides,        \* the overrides argument: the items of the dict, in order
    m_additions,        \* the additions argument
    m_out,              \* the list returned
    \* the detection functions of recon on their own (DetectSpec)
    d_pc,               \* "idle", "called" (the arguments given), "returned"
    d_headers,          \* the headers argument: the items of the dict, in order
    d_html_sample,      \* the html_sample argument
    d_waf_hits,         \* what detect_waf returned
    d_tech_hits,        \* what detect_tech returned
    d_captcha_hits,     \* what detect_captcha returned
    \* the Recon strategy (ReconSpec)
    r_pc,               \* "idle", "captcha" / "waf" (in the loop of _handle_captcha / _handle_waf), "returned", "raised"
    r_phase,            \* the hook called last: "none", "before", "after"
    r_reports,          \* self._reports[context.instance_id] (present: there is one)
    r_report,           \* the report after_navigation works with
    r_context,          \* the context of after_navigation
    r_html,             \* the live HTML fetched by after_navigation
    r_hits,             \* the hits the running loop goes through
    r_i,                \* the place of the loop in r_hits
    r_log,              \* what the hooks did, in order
    r_error,            \* the exception the hook raised
    r_factories,        \* self._waf_strategy_factories and self._captcha_strategy_factories (their keys)
    \* the PerimeterX strategy (PxSpec)
    x_pc,               \* "idle", "poll" (_wait_for_button), "move", "press", "release", "returned", "raised"
    x_phase,            \* the hook called last: "none", "before", "after"
    x_context,          \* the context of after_navigation
    x_open,             \* the socket of _press_and_hold_button is open
    x_message_id,       \* message_id of _press_and_hold_button
    x_log,              \* the commands sent on the socket, in order
    x_button,           \* button_location: None, or "found"
    x_steps,            \* steps of _move_mouse_humanlike
    x_step,             \* the passes of its loop that are done
    x_polls,            \* the polls for the button that found none
    x_passed,           \* the deadlines the clock has passed
    x_error,            \* the exception the hook raised
    \* the profile directory (ProfileSpec)
    f_pc,               \* "idle", "resolved" (resolve_profile_dir), "resolved_own" (_resolve_profile_dir)
    f_profile_dir,      \* config.profile_dir
    f_out,              \* the path resolve_profile_dir returned (empty: none yet)
    f_made              \* the directories it made (mkdir)

wvars == <<w_pc, w_open, w_single, w_ids, w_message_id, w_next, w_frame, w_skipped, w_out>>
lvars == <<l_data, l_target_id, l_out>>
life == <<binding, process, live, current_target_id, current_url, pc, op, before, out, io,
          signals, ws_open, message_id, sent, reply, ws_url, document, node_id, outer_html, polls,
          passed, last_error>>
ivars == <<life, events>>
pvars == <<p_pc, p_mode, p_phase, p_strategies, p_context, p_i, p_log, p_error, p_yielded>>
\* The layers added to the first three.
mvars == <<m_pc, m_defaults, m_overrides, m_additions, m_out>>
dvars == <<d_pc, d_headers, d_html_sample, d_waf_hits, d_tech_hits, d_captcha_hits>>
rvars == <<r_pc, r_phase, r_reports, r_report, r_context, r_html, r_hits, r_i, r_log, r_error,
           r_factories>>
xvars == <<x_pc, x_phase, x_context, x_open, x_message_id, x_log, x_button, x_steps, x_step,
           x_polls, x_passed, x_error>>
fvars == <<f_pc, f_profile_dir, f_out, f_made>>
rest == <<pvars, mvars, dvars, rvars, xvars, fvars>>
vars == <<wvars, lvars, ivars, rest>>
\* What the steps of one layer leave alone.
notWire == <<lvars, ivars, rest>>
notLookup == <<wvars, ivars, rest>>
notLife == <<wvars, lvars, rest>>
notPipe == <<wvars, lvars, ivars, mvars, dvars, rvars, xvars, fvars>>
notMerge == <<wvars, lvars, ivars, pvars, dvars, rvars, xvars, fvars>>
notDetect == <<wvars, lvars, ivars, pvars, mvars, rvars, xvars, fvars>>
notRecon == <<wvars, lvars, ivars, pvars, mvars, dvars, xvars, fvars>>
notPx == <<wvars, lvars, ivars, pvars, mvars, dvars, rvars, fvars>>
notProfile == <<wvars, lvars, ivars, pvars, mvars, dvars, rvars, xvars>>

\* A local variable of an operation that no statement has assigned yet.
Unbound == "unbound"

\* How a call ends.
Pending == [kind |-> "none", error |-> None, value |-> EmptyObj]
Result(v) == [kind |-> "result", error |-> None, value |-> v]
Failed(k, err) == [kind |-> k, error |-> err, value |-> EmptyObj]

WireIdle ==
    /\ w_pc = "idle"
    /\ w_open = FALSE
    /\ w_single = FALSE
    /\ w_ids = <<>>
    /\ w_message_id = 0
    /\ w_next = 0
    /\ w_frame = EmptyFrame
    /\ w_skipped = FALSE
    /\ w_out = Pending

LookupIdle ==
    /\ l_data = <<>>
    /\ l_target_id = None
    /\ l_out = [kind |-> "none", error |-> None, value |-> None]

\* A command as sent: {id, method, params} with the params the program varies.
Command(i, m, u, n) == [id |-> i, method |-> m, url |-> u, nodeId |-> n]
NoCommand == Command(0, None, NoUrl, None)

\* How an operation ends: a return value (goto: the result object, content:
\* the HTML string) or an exception (its class, its argument, its __cause__).
Outcome(k, e, v, h, c) == [kind |-> k, error |-> e, value |-> v, html |-> h, cause |-> c]
Running == Outcome("none", None, EmptyObj, None, None)
Ok(v) == Outcome("ok", None, v, None, None)
OkHtml(h) == Outcome("ok", None, EmptyObj, h, None)
Exc(k, e) == Outcome(k, e, EmptyObj, None, None)
ExcFrom(k, e, c) == Outcome(k, e, EmptyObj, None, c)

NoOp == [name |-> "none", url |-> NoUrl, prev |-> "none"]
Snapshot(p, t, u) == [process |-> p, current_target_id |-> t, current_url |-> u]

\* BrowserInstance.__init__: no process, no target, no url.
LifeFresh ==
    /\ process = None
    /\ live = 0
    /\ current_target_id = None
    /\ current_url = NoUrl
    /\ pc = "idle"
    /\ op = NoOp
    /\ before = Snapshot(None, None, NoUrl)
    /\ out = Running
    /\ io = {}
    /\ signals = <<>>
    /\ ws_open = FALSE
    /\ message_id = 0
    /\ sent = NoCommand
    /\ reply = EmptyObj
    /\ ws_url = None
    /\ document = EmptyObj
    /\ node_id = Unbound
    /\ outer_html = Unbound
    /\ polls = <<>>
    /\ passed = {}
    /\ last_error = None
    /\ events = {}

\* The lifecycle at rest while another layer is studied.
LifeIdle == binding = "sync" /\ LifeFresh

\* What a hook does when called: it returns None, raises, returns an
\* awaitable that completes, or returns an awaitable that raises when awaited.
Behaviours == {"return", "raise", "awaitable", "awaitable_raise"}

\* A NavigationStrategy: its name and what its two hooks do.
Strategy(n, b, a) == [name |-> n, before_navigation |-> b, after_navigation |-> a]

\* default_strategies(): ReconStrategy(), PerimeterXStrategy().
DefaultStrategies == <<Strategy("recon", "return", "return"), Strategy("perimeterx", "return", "return")>>

\* Strategies a caller may write.
Strategies == {Strategy("custom", b, a) : b \in Behaviours, a \in Behaviours}

\* No run of the pipeline yet; the instance is configured with the defaults.
PipeIdle ==
    /\ p_pc = "idle"
    /\ p_mode = "sync"
    /\ p_phase = "before"
    /\ p_strategies = DefaultStrategies
    /\ p_context = None
    /\ p_i = 0
    /\ p_log = <<>>
    /\ p_error = None
    /\ p_yielded = FALSE

\* merge_strategies not called yet.
MergeIdle ==
    /\ m_pc = "idle"
    /\ m_defaults = <<>>
    /\ m_overrides = <<>>
    /\ m_additions = <<>>
    /\ m_out = <<>>

\* The added layers at rest.
DetectIdle ==
    /\ d_pc = "idle"
    /\ d_headers = <<>>
    /\ d_html_sample = <<>>
    /\ d_waf_hits = <<>>
    /\ d_tech_hits = <<>>
    /\ d_captcha_hits = <<>>

\* class ReconReport (without the url); present: the report exists.
ReconReport(present, headers, html_sample, waf_hits, tech_hits, captcha_hits) ==
    [present |-> present, headers |-> headers, html_sample |-> html_sample,
     waf_hits |-> waf_hits, tech_hits |-> tech_hits, captcha_hits |-> captcha_hits]

\* self._reports.get(context.instance_id) when there is no report.
NoReport == ReconReport(FALSE, <<>>, <<>>, <<>>, <<>>, <<>>)

\* The context of a hook: whether target_id is set, whether the config has a
\* remote debugging port, and the names of the other configured strategies.
NavigationContext(target_id, port, siblings) ==
    [target_id |-> target_id, port |-> port, siblings |-> siblings]

\* No exception.
NoFailure == [kind |-> "none", vendor |-> "none"]

\* self._waf_strategy_factories = waf_strategy_factories or {"perimeterx":
\* PerimeterXStrategy}, given the keys of the argument (none: None or {}).
waf_strategy_factories(arg) == IF arg = {} THEN {"perimeterx"} ELSE arg

\* self._captcha_strategy_factories = captcha_strategy_factories or {}
captcha_strategy_factories(arg) == arg

\* ReconStrategy.__init__: the two tables of factories.
ReconStrategy_init(waf, captcha) ==
    [waf |-> waf_strategy_factories(waf), captcha |-> captcha_strategy_factories(captcha)]

\* A ReconStrategy no hook of which has been called.
ReconFresh ==
    /\ r_pc = "idle"
    /\ r_phase = "none"
    /\ r_reports = NoReport
    /\ r_report = NoReport
    /\ r_context = NavigationContext(FALSE, FALSE, {})
    /\ r_html = <<>>
    /\ r_hits = <<>>
    /\ r_i = 1
    /\ r_log = <<>>
    /\ r_error = NoFailure

\* ReconStrategy(): the strategy as default_strategies makes it.
ReconIdle == ReconFresh /\ r_factories = ReconStrategy_init({}, {})

\* A PerimeterXStrategy no hook of which has been called.
PxIdle ==
    /\ x_pc = "idle"
    /\ x_phase = "none"
    /\ x_context = NavigationContext(FALSE, FALSE, {})
    /\ x_open = FALSE
    /\ x_message_id = 0
    /\ x_log = <<>>
    /\ x_button = None
    /\ x_steps = 0
    /\ x_step = 0
    /\ x_polls = 0
    /\ x_passed = {}
    /\ x_error = NoFailure

\* No profile directory resolved yet.
ProfileIdle ==
    /\ f_pc = "idle"
    /\ f_profile_dir = [none |-> TRUE, text |-> <<>>]
    /\ f_out = <<>>
    /\ f_made = {}

RestIdle == PipeIdle /\ MergeIdle /\ DetectIdle /\ ReconIdle /\ PxIdle /\ ProfileIdle

\* ------------------------------------------------------------------ WireSpec

WirePayloads == {EmptyObj} \cup TargetPayloads

\* ws.send(json.dumps(payload)) with payload["id"] = id.
WireSend(ids, id) ==
    /\ w_ids' = Append(ids, id)
    /\ w_message_id' = id
    /\ w_frame' = EmptyFrame
    /\ w_skipped' = FALSE
    /\ w_out' = Pending
    /\ w_pc' = "recv"

\* _send_cdp_command: message_id = 1, a fresh socket, the command sent.
W_SendCdpCommand ==
    /\ w_pc = "idle"
    /\ w_open' = TRUE
    /\ w_single' = TRUE
    /\ WireSend(<<>>, 1)
    /\ w_next' = 0
    /\ UNCHANGED notWire

\* A caller of _send_cdp_command_on_ws opens its socket and sets message_id = 1
\* (content, _wait_for_network_idle, _press_and_hold_button).
W_Connect ==
    /\ w_pc = "idle"
    /\ w_open' = TRUE
    /\ w_single' = FALSE
    /\ w_ids' = <<>>
    /\ w_next' = 1
    /\ w_pc' = "open"
    /\ w_frame' = EmptyFrame
    /\ w_skipped' = FALSE
    /\ w_out' = Pending
    /\ UNCHANGED <<w_message_id, notWire>>

\* _send_cdp_command_on_ws(ws, message_id, ...): the command sent with the caller's id.
W_SendOnWs ==
    /\ w_pc = "open"
    /\ Len(w_ids) < MaxCmds
    /\ WireSend(w_ids, w_next)
    /\ UNCHANGED <<w_open, w_single, w_next, notWire>>

\* One pass of the receive loop: ws.recv() gave a frame.
W_Recv ==
    /\ w_pc = "recv"
    /\ \E message \in Frames(WirePayloads) :
        LET r == OnFrame(message, w_message_id) IN
        /\ w_frame' = message
        /\ w_skipped' = (w_skipped \/ (r.act = "continue" /\ message.id > 0))
        /\ CASE r.act = "continue" ->
                    UNCHANGED <<w_pc, w_open, w_out, w_next>>
             [] r.act = "raise" ->
                    \* the caller's finally closes the socket
                    /\ w_out' = Failed("error", r.error)
                    /\ w_open' = FALSE
                    /\ w_pc' = "idle"
                    /\ UNCHANGED w_next
             [] r.act = "return" ->
                    /\ w_out' = Result(r.value)
                    /\ IF w_single
                       THEN w_open' = FALSE /\ w_pc' = "idle" /\ UNCHANGED w_next
                       ELSE w_pc' = "open" /\ w_next' = NextMessageId(w_message_id) /\ UNCHANGED w_open
    /\ UNCHANGED <<w_single, w_ids, w_message_id, notWire>>

\* ws.recv() waited for the socket timeout and no frame came.
W_RecvTimeout ==
    /\ w_pc = "recv"
    /\ w_out' = Failed("timeout", None)
    /\ w_open' = FALSE
    /\ w_pc' = "idle"
    /\ UNCHANGED <<w_single, w_ids, w_message_id, w_next, w_frame, w_skipped, notWire>>

\* The caller is done with its socket: ws.close() in its finally.
W_Close ==
    /\ w_pc = "open"
    /\ w_open' = FALSE
    /\ w_pc' = "idle"
    /\ UNCHANGED <<w_single, w_ids, w_message_id, w_next, w_frame, w_skipped, w_out, notWire>>

WireInit == WireIdle /\ LookupIdle /\ LifeIdle /\ RestIdle

WireNext ==
    \/ W_SendCdpCommand
    \/ W_Connect
    \/ W_SendOnWs
    \/ W_Recv
    \/ W_RecvTimeout
    \/ W_Close

WireSpec == WireInit /\ [][WireNext]_vars

\* The calling thread keeps running: a receive that can return does return.
WireFair == WireSpec /\ WF_vars(WireNext)

\* ------------------------------------------------------------------ LookupSpec

NoLookup == [kind |-> "none", error |-> None, value |-> None]

\* A /json/list answer and a requested target id.
L_Ask ==
    /\ l_out = NoLookup
    /\ l_target_id = None
    /\ l_data' \in Listings
    /\ l_target_id' \in TargetIds
    /\ UNCHANGED <<l_out, notLookup>>

\* _target_websocket_url(target_id) on that answer.
L_TargetWebsocketUrl ==
    /\ l_target_id # None
    /\ l_out = NoLookup
    /\ l_out' = TargetWebsocketUrl(l_data, l_target_id)
    /\ UNCHANGED <<l_data, l_target_id, notLookup>>

LookupInit == WireIdle /\ LookupIdle /\ LifeIdle /\ RestIdle

LookupNext == L_Ask \/ L_TargetWebsocketUrl

LookupSpec == LookupInit /\ [][LookupNext]_vars

\* ------------------------------------------------------------------ lifecycle

\* self.process and self.process.poll() is None: the instance owns a process
\* and the probe finds it alive (alive: what the probe finds).
IsRunning(proc, alive) == proc = "running" /\ alive

\* Mutant: start spawns without probing the process it owns.
StartProcess_NoProbe(proc, alive) == [process |-> "running", spawned |-> TRUE]

\* start(): spawns unless the owned process is found running.
StartProcess(proc, alive) ==
    IF IsRunning(proc, alive)
    THEN [process |-> proc, spawned |-> FALSE]
    ELSE [process |-> "running", spawned |-> TRUE]

\* The subprocesses left after a start: the owned one is gone if the probe
\* found it exited, and the spawned one is there.
LiveAfterStart(n, proc, alive, spawned) ==
    n - (IF proc = "running" /\ ~alive THEN 1 ELSE 0) + (IF spawned THEN 1 ELSE 0)

\* The subprocesses left after a close that found proc and leaves now: one
\* less if the process was found exited or exited within the grace period.
LiveAfterClose(n, proc, now) ==
    n - (IF proc = "running" /\ now = "exited" THEN 1 ELSE 0)

\* Mutant: goto lets every url through.
GotoValid_Any(url) == TRUE

\* goto's check of its argument: not (not url).
GotoValid(url) == TruthyUrl(url)

\* Mutant: content goes on without a target.
HasTarget_Any(target_id) == TRUE

\* content's check: not (not self.current_target_id).
HasTarget(target_id) == TruthyStr(target_id)

\* Mutant: a goto on an instance that has a target keeps that target.
NewTarget_KeepExisting(result, current) == IF TruthyStr(current) THEN current ELSE result.targetId

\* goto: self.current_target_id = result.get("targetId").
NewTarget(result, current) == result.targetId

\* Mutant: result.get("outerHTML", "").
OuterHtmlOf_Default(result) == IF result.outerHTML = None THEN "" ELSE result.outerHTML

\* content: outer_html = result.get("outerHTML").
OuterHtmlOf(result) == result.outerHTML

\* Mutant: terminate is sent without probing the process.
CloseEffect_NoProbe(proc, alive, in_time) ==
    IF proc = None THEN [signals |-> <<>>, process |-> None]
    ELSE IF in_time THEN [signals |-> <<"terminate">>, process |-> "exited"]
    ELSE [signals |-> <<"terminate", "kill">>, process |-> "running"]

\* Mutant: kill follows terminate at once, whether or not the process exits
\* within the grace period.
CloseEffect_KillAtOnce(proc, alive, in_time) ==
    IF proc = None THEN [signals |-> <<>>, process |-> None]
    ELSE IF ~IsRunning(proc, alive) THEN [signals |-> <<>>, process |-> "exited"]
    ELSE [signals |-> <<"terminate", "kill">>, process |-> IF in_time THEN "exited" ELSE "running"]

\* close(): nothing without a process; terminate if the probe finds it alive;
\* wait up to the grace period (in_time: it exits within it); kill on timeout.
\* kill() is not followed by a wait: the process is still there when close
\* returns, until a later probe finds it gone.
CloseEffect(proc, alive, in_time) ==
    IF proc = None THEN [signals |-> <<>>, process |-> None]
    ELSE IF ~IsRunning(proc, alive) THEN [signals |-> <<>>, process |-> "exited"]
    ELSE IF in_time THEN [signals |-> <<"terminate">>, process |-> "exited"]
    ELSE [signals |-> <<"terminate", "kill">>, process |-> "running"]

\* The exception a receive raises when nothing comes within its timeout:
\* websocket-client's WebSocketTimeoutException, asyncio.wait_for's TimeoutError.
RecvTimeoutKind(b) == IF b = "sync" THEN "WebSocketTimeoutException" ELSE "TimeoutError"

\* The exception _wait_for_cdp keeps as last_error.
PollErrorKind(b) == IF b = "sync" THEN "URLError" ELSE "ClientError"

\* The exception classes _wait_for_cdp catches: URLError and its subclass
\* HTTPError (an answer of status 4xx or 5xx), aiohttp.ClientError and
\* asyncio.TimeoutError.
PollErrors(b) ==
    IF b = "sync" THEN {"URLError", "HTTPError"} ELSE {"ClientError", "asyncio.TimeoutError"}

\* What a GET /json/version can give: a status, or an exception caught.
PollAnswers(b) == {"200", "204"} \cup PollErrors(b)

\* Mutant: an answer that is no exception clears last_error.
KeepLastError_Reset(last, answer, b) == IF answer \in PollErrors(b) THEN answer ELSE None

\* except ... as exc: last_error = exc.
KeepLastError(last, answer, b) == IF answer \in PollErrors(b) THEN answer ELSE last

\* An operation is called: what it starts from.
BeginOp(name, url) ==
    /\ op' = [name |-> name, url |-> url, prev |-> op.name]
    /\ before' = Snapshot(process, current_target_id, current_url)
    /\ sent' = NoCommand
    /\ reply' = EmptyObj
    /\ document' = EmptyObj
    /\ node_id' = Unbound
    /\ outer_html' = Unbound
    /\ polls' = <<>>
    /\ events' = {}

\* Mutant: the operation ends without closing the socket it holds.
EndOp_KeepsSocket(o) ==
    /\ pc' = "idle"
    /\ out' = o
    /\ UNCHANGED ws_open
    /\ message_id' = 0
    /\ ws_url' = None
    /\ passed' = {}
    /\ last_error' = None
    /\ events' = {}

\* The operation returns or raises: its socket is closed (finally: ws.close(),
\* or the async with block left), its deadlines are gone.  sent, reply,
\* document, node_id and outer_html stay as the record of what it did.
EndOp(o) ==
    /\ pc' = "idle"
    /\ out' = o
    /\ ws_open' = FALSE
    /\ message_id' = 0
    /\ ws_url' = None
    /\ passed' = {}
    /\ last_error' = None
    /\ events' = {}

\* A command is sent on the socket: one just opened by create_connection(ws_url)
\* (id 1), or the one the caller holds.
Send(id, method, url, node) ==
    /\ ws_open' = TRUE
    /\ io' = io \cup {"ws"}
    /\ message_id' = id
    /\ sent' = Command(id, method, url, node)
    /\ events' = IF id = 1 THEN {} ELSE events

\* The clock may pass the deadline d while the step blocks.
Later(d) == {passed, passed \cup {d}}

\* Mutant: the deadline is not looked at.
DeadlinePassed_Never(d, clock) == FALSE

\* not (time.monotonic() < deadline), remaining <= 0, timeout <= 0: the clock
\* has passed the deadline d.
DeadlinePassed(d, clock) == d \in clock

\* The event a frame is, if it is the one the wait is for: Page.loadEventFired
\* (_wait_for_page_load_event), the Page.lifecycleEvent named networkIdle
\* (_wait_for_network_idle).
OfInterest(message, event) ==
    IF message.raw_empty THEN {}
    ELSE IF event = "Page.loadEventFired" /\ message.method = "Page.loadEventFired"
         THEN {event}
    ELSE IF event = "networkIdle" /\ message.method = "Page.lifecycleEvent"
            /\ message.name = "networkIdle"
         THEN {event}
    ELSE {}

\* A receive loop of the wait for event goes on to its next recv: the frame
\* has been read.
PassOver(message, event) ==
    /\ events' = events \cup OfInterest(message, event)
    /\ UNCHANGED life

\* start()
Start ==
    /\ pc = "idle"
    /\ \E alive \in BOOLEAN :
        LET s == StartProcess(process, alive) IN
        /\ BeginOp("start", NoUrl)
        /\ process' = s.process
        /\ live' = LiveAfterStart(live, process, alive, s.spawned)
        /\ io' = IF s.spawned THEN {"spawn"} ELSE {}
        /\ signals' = <<>>
        /\ out' = Ok(EmptyObj)
    /\ UNCHANGED <<binding, current_target_id, current_url, pc, ws_open, message_id,
                   ws_url, passed, last_error, notLife>>

\* close()
Close ==
    /\ pc = "idle"
    /\ \E alive \in BOOLEAN, in_time \in BOOLEAN :
        LET e == CloseEffect(process, alive, in_time) IN
        /\ BeginOp("close", NoUrl)
        /\ signals' = e.signals
        /\ process' = e.process
        /\ live' = LiveAfterClose(live, process, e.process)
    /\ io' = {}
    /\ out' = Ok(EmptyObj)
    /\ UNCHANGED <<binding, current_target_id, current_url, pc, ws_open, message_id,
                   ws_url, passed, last_error, notLife>>

\* goto(url), up to and including self.start() and the deadline _wait_for_cdp
\* fixes on entry (the clock may be past it before the loop's first test).
Goto ==
    /\ pc = "idle"
    /\ \E url \in Urls \cup {EmptyUrl, NoUrl}, alive \in BOOLEAN :
        /\ BeginOp("goto", url)
        /\ signals' = <<>>
        /\ IF ~GotoValid(url)
           THEN /\ out' = Exc("ValueError", "url is required")
                /\ io' = {}
                /\ UNCHANGED <<process, live, pc, passed>>
           ELSE LET s == StartProcess(process, alive) IN
                /\ process' = s.process
                /\ live' = LiveAfterStart(live, process, alive, s.spawned)
                /\ io' = IF s.spawned THEN {"spawn"} ELSE {}
                /\ out' = Running
                /\ pc' = "goto_cdp"
                /\ passed' \in Later("startup")
    /\ UNCHANGED <<binding, current_target_id, current_url, ws_open, message_id,
                   ws_url, last_error, notLife>>

\* One pass of _wait_for_cdp's loop: the deadline test, GET /json/version,
\* the sleep.
WaitForCdp ==
    /\ pc \in {"goto_cdp", "content_cdp"}
    /\ IF DeadlinePassed("startup", passed)
       THEN /\ EndOp(ExcFrom("TimeoutError", "CDP endpoint did not become available", last_error))
            /\ UNCHANGED <<io, polls>>
       ELSE \E status \in PollAnswers(binding) :
            /\ io' = io \cup {"http"}
            /\ polls' = Append(polls, status)
            /\ IF status = "200"
               THEN /\ pc' = (IF pc = "goto_cdp" THEN "goto_version" ELSE "content_list")
                    /\ passed' = {}
                    /\ last_error' = None
               ELSE /\ last_error' = KeepLastError(last_error, status, binding)
                    /\ passed' \in (IF Len(polls) + 1 < MaxPolls
                                    THEN Later("startup")
                                    ELSE {passed \cup {"startup"}})
                    /\ UNCHANGED pc
            /\ UNCHANGED <<out, ws_open, message_id, ws_url, events>>
    /\ UNCHANGED <<binding, process, live, current_target_id, current_url, op, before, signals,
                   sent, reply, document, node_id, outer_html, notLife>>

\* _browser_websocket_url(): GET /json/version and its webSocketDebuggerUrl.
BrowserWebsocketUrl ==
    /\ pc = "goto_version"
    /\ io' = io \cup {"http"}
    /\ polls' = <<>>
    /\ \E answer \in WsUrls \cup {None, "error"} :
        IF answer = "error"
        THEN EndOp(Exc(PollErrorKind(binding), "GET /json/version"))
        ELSE IF ~TruthyStr(answer)
        THEN EndOp(Exc("RuntimeError", "Missing webSocketDebuggerUrl from CDP version endpoint"))
        ELSE /\ ws_url' = answer
             /\ pc' = "goto_send"
             /\ UNCHANGED <<out, ws_open, message_id, passed, last_error, events>>
    /\ UNCHANGED <<binding, process, live, current_target_id, current_url, op, before, signals,
                   sent, reply, document, node_id, outer_html, notLife>>

\* _send_cdp_command(ws_url, "Target.createTarget", {"url": url}): the socket
\* opened and the command sent with message_id = 1.
GotoSend ==
    /\ pc = "goto_send"
    /\ \E connected \in BOOLEAN :
        IF connected
        THEN /\ Send(1, "Target.createTarget", op.url, None)
             /\ pc' = "goto_recv"
             /\ UNCHANGED <<out, ws_url, passed, last_error>>
        ELSE /\ EndOp(Exc("ConnectionError", "create_connection"))
             /\ UNCHANGED <<io, sent>>
    /\ UNCHANGED <<binding, process, live, current_target_id, current_url, op, before, signals,
                   reply, document, node_id, outer_html, polls, notLife>>

\* The receive loop of that command, and the end of goto: the target id and
\* the url recorded, the result returned.
GotoRecv ==
    /\ pc = "goto_recv"
    /\ \/ \E message \in Frames(TargetPayloads \cup {EmptyObj}) :
            LET r == OnFrame(message, message_id) IN
            CASE r.act = "continue" ->
                    UNCHANGED <<ivars>>
              [] r.act = "raise" ->
                    /\ EndOp(Exc("RuntimeError", r.error))
                    /\ UNCHANGED <<current_target_id, current_url, reply>>
              [] r.act = "return" ->
                    /\ reply' = r.value
                    /\ current_target_id' = NewTarget(r.value, current_target_id)
                    /\ current_url' = op.url
                    /\ EndOp(Ok(r.value))
       \/ /\ EndOp(Exc(RecvTimeoutKind(binding), "recv"))
          /\ UNCHANGED <<current_target_id, current_url, reply>>
    /\ UNCHANGED <<binding, process, live, op, before, io, signals, sent, document, node_id,
                   outer_html, polls, notLife>>

\* _document_url_ready, given the documentURL of the DOM.getDocument result.
DocumentUrlReady(document_url, expected_url) ==
    IF ~TruthyUrl(document_url) THEN FALSE
    ELSE IF document_url = AboutBlank THEN FALSE
    ELSE IF TruthyUrl(expected_url) /\ ~StartsWith(document_url, expected_url) THEN FALSE
    ELSE TRUE

\* The test of the asyncio _wait_for_content_ready on the polled documentURL.
ContentUrlReady(document_url, expected_url) ==
    /\ document_url # NoUrl
    /\ StartsWith(document_url, expected_url)
    /\ document_url # AboutBlank

\* except TimeoutError: the exception classes the clause catches.
Caught(kind) == kind = "TimeoutError"

\* The body of _wait_for_page_load_event's receive loop.
OnPageLoadFrame(message, id) ==
    IF message.raw_empty THEN Continue
    ELSE IF message.id = id
         THEN IF message.has_error THEN Raise(message.error) ELSE Continue
    ELSE IF message.method = "Page.loadEventFired" THEN Return(EmptyObj)
    ELSE Continue

\* The body of _wait_for_network_idle's receive loop.
OnLifecycleFrame(message) ==
    IF message.raw_empty THEN Continue
    ELSE IF message.method # "Page.lifecycleEvent" THEN Continue
    ELSE IF message.name = "networkIdle" THEN Return(EmptyObj)
    ELSE Continue

\* What the steps inside content leave alone.
held == <<binding, process, live, current_target_id, current_url, op, before, signals>>
stable == <<held, polls>>

\* content raises o from inside a helper.
Fail(o) ==
    /\ EndOp(o)
    /\ UNCHANGED <<io, sent, reply, document, node_id, outer_html>>

\* A helper returns: its socket is closed, content goes on at the step to.
Proceed(to) ==
    /\ pc' = to
    /\ ws_open' = FALSE
    /\ message_id' = 0
    /\ events' = {}
    /\ UNCHANGED <<out, io, sent, ws_url, document, node_id, outer_html, last_error>>

\* A fresh socket to the target and a command on it with id 1, or the
\* connection refused.
Connect(method, node, to) ==
    \E connected \in BOOLEAN :
        IF connected
        THEN /\ Send(1, method, NoUrl, node)
             /\ pc' = to
             /\ UNCHANGED <<out, reply, ws_url, document, node_id, outer_html, passed, last_error>>
        ELSE Fail(Exc("ConnectionError", "create_connection"))

\* content, up to and including self.start() and the deadline _wait_for_cdp
\* fixes on entry.
Content ==
    /\ pc = "idle"
    /\ \E alive \in BOOLEAN :
        /\ BeginOp("content", NoUrl)
        /\ signals' = <<>>
        /\ IF ~HasTarget(current_target_id)
           THEN /\ out' = Exc("RuntimeError", "No current target; call goto() first")
                /\ io' = {}
                /\ UNCHANGED <<process, live, pc, passed>>
           ELSE LET s == StartProcess(process, alive) IN
                /\ process' = s.process
                /\ live' = LiveAfterStart(live, process, alive, s.spawned)
                /\ io' = IF s.spawned THEN {"spawn"} ELSE {}
                /\ out' = Running
                /\ pc' = "content_cdp"
                /\ passed' \in Later("startup")
    /\ UNCHANGED <<binding, current_target_id, current_url, ws_open, message_id,
                   ws_url, last_error, notLife>>

\* _target_websocket_url(self.current_target_id): GET /json/list and the scan;
\* then the deadline _wait_for_dom_ready fixes on entry.
ContentList ==
    /\ pc = "content_list"
    /\ io' = io \cup {"http"}
    /\ polls' = <<>>
    /\ \/ \E r \in LookupOutcomes[current_target_id] :
            IF r.kind = "result"
            THEN /\ ws_url' = r.value
                 /\ pc' = "dom_loop"
                 /\ passed' \in Later("page")
                 /\ UNCHANGED <<out, ws_open, message_id, last_error, events>>
            ELSE EndOp(Exc(r.kind, r.error))
       \/ EndOp(Exc(PollErrorKind(binding), "GET /json/list"))
    /\ UNCHANGED <<held, sent, reply, document, node_id, outer_html, notLife>>

\* _wait_for_dom_ready: the deadline test of its loop, then _document_url's
\* command sent.
DomLoop ==
    /\ pc = "dom_loop"
    /\ IF DeadlinePassed("page", passed)
       THEN Proceed("cr_start") /\ UNCHANGED <<reply, passed>>
       ELSE Connect("DOM.getDocument", None, "dom_doc_recv")
    /\ UNCHANGED <<stable, notLife>>

\* The receive loop of that command, _document_url_ready's verdict, and the
\* remaining time computed.
DomDocRecv ==
    /\ pc = "dom_doc_recv"
    /\ \/ \E message \in Frames(DocumentPayloads \cup {EmptyObj}) :
            LET r == OnFrame(message, message_id) IN
            CASE r.act = "continue" -> UNCHANGED <<ivars>>
              [] r.act = "raise" -> Fail(Exc("RuntimeError", r.error))
              [] r.act = "return" ->
                    /\ reply' = r.value
                    /\ IF DocumentUrlReady(r.value.documentURL, current_url)
                       THEN Proceed("cr_start") /\ UNCHANGED passed
                       ELSE Proceed("ple_start") /\ passed' \in Later("page")
       \/ Fail(Exc(RecvTimeoutKind(binding), "recv"))
    /\ UNCHANGED <<stable, notLife>>

\* remaining <= 0: _wait_for_dom_ready returns; else _wait_for_page_load_event
\* opens its socket and sends Page.enable.
PleStart ==
    /\ pc = "ple_start"
    /\ IF DeadlinePassed("page", passed)
       THEN Proceed("cr_start") /\ UNCHANGED <<reply, passed>>
       ELSE Connect("Page.enable", None, "ple_recv")
    /\ UNCHANGED <<stable, notLife>>

\* One pass of _wait_for_page_load_event's loop.  Its TimeoutError, and a
\* receive timeout of a class the except clause catches, end _wait_for_dom_ready.
PleRecv ==
    /\ pc = "ple_recv"
    /\ \/ /\ Proceed("cr_start")
          /\ passed' = passed \cup {"page"}
          /\ UNCHANGED reply
       \/ IF Caught(RecvTimeoutKind(binding))
          THEN /\ Proceed("cr_start")
               /\ passed' = passed \cup {"page"}
               /\ UNCHANGED reply
          ELSE Fail(Exc(RecvTimeoutKind(binding), "recv"))
       \/ \E message \in Frames({EmptyObj}) :
            LET r == OnPageLoadFrame(message, message_id) IN
            CASE r.act = "continue" -> PassOver(message, "Page.loadEventFired")
              [] r.act = "raise" -> Fail(Exc("RuntimeError", r.error))
              [] r.act = "return" ->
                    /\ Proceed("dom_loop")
                    /\ passed' \in Later("page")
                    /\ UNCHANGED reply
    /\ UNCHANGED <<stable, notLife>>

\* The command _wait_for_content_ready sends first: Page.enable of
\* _wait_for_network_idle (blocking binding), DOM.getDocument of _document_url
\* (asyncio binding).
wait_for_content_ready_command(b) ==
    IF b = "sync" THEN "Page.enable" ELSE "DOM.getDocument"

\* _wait_for_content_ready: nothing without an expected url; else a deadline of
\* its own, which the clock may be past at the first test of it (the blocking
\* binding's remaining <= 0: return; the asyncio binding's loop condition);
\* if not, the blocking binding opens _wait_for_network_idle's socket and
\* sends Page.enable, the asyncio binding enters its polling loop.
CrStart ==
    /\ pc = "cr_start"
    /\ IF ~TruthyUrl(current_url)
       THEN Proceed("extract") /\ UNCHANGED <<reply, passed>>
       ELSE IF binding = "sync"
       THEN \/ /\ Proceed("extract")
               /\ passed' = passed \cup {"content"}
               /\ UNCHANGED reply
            \/ Connect(wait_for_content_ready_command(binding), None, "ni_recv")
       ELSE /\ Proceed("cr_loop")
            /\ passed' \in Later("content")
            /\ UNCHANGED reply
    /\ UNCHANGED <<stable, notLife>>

\* _wait_for_network_idle: the receive loops of its two enabling commands
\* (_send_cdp_command_on_ws), the second sent with the id the first handed back.
NiRecv ==
    /\ pc = "ni_recv"
    /\ \/ \E message \in Frames({EmptyObj}) :
            LET r == OnFrame(message, message_id) IN
            CASE r.act = "continue" -> PassOver(message, "networkIdle")
              [] r.act = "raise" -> Fail(Exc("RuntimeError", r.error))
              [] r.act = "return" ->
                    /\ reply' = r.value
                    /\ IF sent.method = "Page.enable"
                       THEN /\ Send(NextMessageId(message_id), "Page.setLifecycleEventsEnabled",
                                    NoUrl, None)
                            /\ UNCHANGED pc
                       ELSE /\ pc' = "ni_event"
                            /\ message_id' = NextMessageId(message_id)
                            /\ UNCHANGED <<ws_open, io, sent, events>>
                    /\ UNCHANGED <<out, ws_url, document, node_id, outer_html, passed, last_error>>
       \/ IF Caught(RecvTimeoutKind(binding))
          THEN Proceed("extract") /\ UNCHANGED <<reply, passed>>
          ELSE Fail(Exc(RecvTimeoutKind(binding), "recv"))
    /\ UNCHANGED <<stable, notLife>>

\* One pass of _wait_for_network_idle's event loop.  Its TimeoutError, and a
\* receive timeout of a class the except clause catches, end
\* _wait_for_content_ready.
NiEvent ==
    /\ pc = "ni_event"
    /\ \/ /\ Proceed("extract")
          /\ passed' = passed \cup {"content"}
          /\ UNCHANGED reply
       \/ IF Caught(RecvTimeoutKind(binding))
          THEN /\ Proceed("extract")
               /\ passed' = passed \cup {"content"}
               /\ UNCHANGED reply
          ELSE Fail(Exc(RecvTimeoutKind(binding), "recv"))
       \/ \E message \in Frames({EmptyObj}) :
            LET r == OnLifecycleFrame(message) IN
            CASE r.act = "continue" -> PassOver(message, "networkIdle")
              [] r.act = "return" -> Proceed("extract") /\ UNCHANGED <<reply, passed>>
    /\ UNCHANGED <<stable, notLife>>

\* The asyncio _wait_for_content_ready: the deadline test of its loop, then
\* _document_url's command sent.
CrLoop ==
    /\ pc = "cr_loop"
    /\ IF DeadlinePassed("content", passed)
       THEN Proceed("extract") /\ UNCHANGED <<reply, passed>>
       ELSE Connect(wait_for_content_ready_command(binding), None, "cr_doc_recv")
    /\ UNCHANGED <<stable, notLife>>

\* The receive loop of that command, the test of the url, the sleep.
CrDocRecv ==
    /\ pc = "cr_doc_recv"
    /\ \/ \E message \in Frames(DocumentPayloads \cup {EmptyObj}) :
            LET r == OnFrame(message, message_id) IN
            CASE r.act = "continue" -> UNCHANGED <<ivars>>
              [] r.act = "raise" -> Fail(Exc("RuntimeError", r.error))
              [] r.act = "return" ->
                    /\ reply' = r.value
                    /\ IF ContentUrlReady(r.value.documentURL, current_url)
                       THEN Proceed("extract") /\ UNCHANGED passed
                       ELSE Proceed("cr_loop") /\ passed' \in Later("content")
       \/ Fail(Exc(RecvTimeoutKind(binding), "recv"))
    /\ UNCHANGED <<stable, notLife>>

\* content: the socket opened and DOM.getDocument sent with message_id = 1.
Extract ==
    /\ pc = "extract"
    /\ Connect("DOM.getDocument", None, "ext_doc_recv")
    /\ UNCHANGED <<stable, notLife>>

\* The receive loop of DOM.getDocument, the root node id read, and
\* DOM.getOuterHTML sent: on the same socket with the id handed back
\* (blocking binding), or left to a fresh socket (asyncio binding).
ExtDocRecv ==
    /\ pc = "ext_doc_recv"
    /\ \/ \E message \in Frames(DocumentPayloads \cup {EmptyObj}) :
            LET r == OnFrame(message, message_id) IN
            CASE r.act = "continue" -> UNCHANGED <<ivars>>
              [] r.act = "raise" -> Fail(Exc("RuntimeError", r.error))
              [] r.act = "return" ->
                    /\ reply' = r.value
                    /\ document' = r.value
                    /\ node_id' = r.value.nodeId
                    /\ UNCHANGED outer_html
                    /\ IF ~TruthyNode(r.value.nodeId)
                       THEN /\ EndOp(Exc("RuntimeError", "Missing document node id"))
                            /\ UNCHANGED <<io, sent>>
                       ELSE IF binding = "sync"
                       THEN /\ Send(NextMessageId(message_id), "DOM.getOuterHTML", NoUrl,
                                     r.value.nodeId)
                            /\ pc' = "ext_html_recv"
                            /\ UNCHANGED <<out, ws_url, passed, last_error>>
                       ELSE /\ pc' = "ext_html_send"
                            /\ ws_open' = FALSE
                            /\ message_id' = 0
                            /\ events' = {}
                            /\ UNCHANGED <<out, io, sent, ws_url, passed, last_error>>
       \/ Fail(Exc(RecvTimeoutKind(binding), "recv"))
    /\ UNCHANGED <<stable, notLife>>

\* The asyncio content: _send_cdp_command(ws_url, "DOM.getOuterHTML", {"nodeId": node_id}).
ExtHtmlSend ==
    /\ pc = "ext_html_send"
    /\ Connect("DOM.getOuterHTML", node_id, "ext_html_recv")
    /\ UNCHANGED <<stable, notLife>>

\* The receive loop of DOM.getOuterHTML and the end of content.
ExtHtmlRecv ==
    /\ pc = "ext_html_recv"
    /\ \/ \E message \in Frames(HtmlPayloads \cup {EmptyObj}) :
            LET r == OnFrame(message, message_id) IN
            CASE r.act = "continue" -> UNCHANGED <<ivars>>
              [] r.act = "raise" -> Fail(Exc("RuntimeError", r.error))
              [] r.act = "return" ->
                    /\ reply' = r.value
                    /\ outer_html' = OuterHtmlOf(r.value)
                    /\ IF OuterHtmlOf(r.value) = None
                       THEN EndOp(Exc("RuntimeError", "Missing page content result"))
                       ELSE EndOp(OkHtml(OuterHtmlOf(r.value)))
                    /\ UNCHANGED <<io, sent, document, node_id>>
       \/ Fail(Exc(RecvTimeoutKind(binding), "recv"))
    /\ UNCHANGED <<stable, notLife>>

Init ==
    /\ binding \in {"sync", "async"}
    /\ LifeFresh
    /\ WireIdle
    /\ LookupIdle
    /\ RestIdle

Next ==
    \/ Start
    \/ Close
    \/ Goto
    \/ WaitForCdp
    \/ BrowserWebsocketUrl
    \/ GotoSend
    \/ GotoRecv
    \/ Content
    \/ ContentList
    \/ DomLoop
    \/ DomDocRecv
    \/ PleStart
    \/ PleRecv
    \/ CrStart
    \/ NiRecv
    \/ NiEvent
    \/ CrLoop
    \/ CrDocRecv
    \/ Extract
    \/ ExtDocRecv
    \/ ExtHtmlSend
    \/ ExtHtmlRecv

Spec == Init /\ [][Next]_vars

\* ------------------------------------------------------------------ PipeSpec

\* After a call of a hook: the loop goes on (next), the run is suspended in
\* the awaitable (await) or the run raises (raised); what the log gets.
Step(to, event, error) == [to |-> to, event |-> event, error |-> error]

\* Mutant: the awaitable is scheduled and not awaited.
CallResult_NoAwait(mode, b) ==
    IF b = "return" THEN Step("next", "end", None)
    ELSE IF b = "raise" THEN Step("raised", "fail", "HookError")
    ELSE IF mode = "sync" THEN Step("raised", "fail", "TypeError")
    ELSE Step("next", "none", None)

\* Mutant: a failing hook is logged and the loop goes on.
CallResult_BestEffort(mode, b) ==
    IF b = "return" THEN Step("next", "end", None)
    ELSE IF b = "raise" THEN Step("next", "fail", "HookError")
    ELSE IF mode = "sync" THEN Step("raised", "fail", "TypeError")
    ELSE Step("await", "none", None)

\* result = strategy.before_navigation(context) and the test of the result:
\* an exception of the hook propagates; an awaitable is a TypeError in the
\* blocking pipeline and is awaited in the asyncio pipeline.
CallResult(mode, b) ==
    IF b = "return" THEN Step("next", "end", None)
    ELSE IF b = "raise" THEN Step("raised", "fail", "HookError")
    ELSE IF mode = "sync" THEN Step("raised", "fail", "TypeError")
    ELSE Step("await", "none", None)

\* await result
AwaitResult(b) ==
    IF b = "awaitable" THEN Step("next", "end", None)
    ELSE Step("raised", "fail", "HookError")

\* The hook of a strategy for the phase.
HookOf(strategy, phase) ==
    IF phase = "before" THEN strategy.before_navigation ELSE strategy.after_navigation

Event(ev, i, target) == [ev |-> ev, i |-> i, target |-> target]

\* The log after the step r of the hook at i.
Logged(log, r, i, target) ==
    IF r.event = "none" THEN log ELSE Append(log, Event(r.event, i, target))

\* run_before_navigation / run_after_navigation (and _async) called.
P_Run ==
    /\ p_pc = "idle"
    /\ \E mode \in {"sync", "async"}, phase \in {"before", "after"},
          strategies \in SeqsUpTo(Strategies, MaxHooks) \cup {DefaultStrategies} :
        /\ p_mode' = mode
        /\ p_phase' = phase
        /\ p_strategies' = strategies
        /\ p_context' = (IF phase = "before" THEN None ELSE "t1")
    /\ p_pc' = "loop"
    /\ p_i' = 1
    /\ p_log' = <<>>
    /\ p_error' = None
    /\ p_yielded' = FALSE
    /\ UNCHANGED notPipe

\* One pass of the for loop: the hook called and its result tested; or the
\* loop exhausted and the run returned.
P_Call ==
    /\ p_pc = "loop"
    /\ IF p_i > Len(p_strategies)
       THEN /\ p_pc' = "returned"
            /\ UNCHANGED <<p_i, p_log, p_error>>
       ELSE LET r == CallResult(p_mode, HookOf(p_strategies[p_i], p_phase)) IN
            /\ p_log' = Logged(Append(p_log, Event("start", p_i, p_context)), r, p_i, p_context)
            /\ p_pc' = (IF r.to = "next" THEN "loop" ELSE r.to)
            /\ p_i' = (IF r.to = "next" THEN p_i + 1 ELSE p_i)
            /\ p_error' = r.error
    /\ UNCHANGED <<p_mode, p_phase, p_strategies, p_context, p_yielded, notPipe>>

\* While the run is suspended in await, the event loop runs another task.
P_OtherTask ==
    /\ p_pc = "await"
    /\ ~p_yielded
    /\ p_yielded' = TRUE
    /\ UNCHANGED <<p_pc, p_mode, p_phase, p_strategies, p_context, p_i, p_log, p_error, notPipe>>

\* The awaited hook completes or raises, and the run resumes.
P_Resume ==
    /\ p_pc = "await"
    /\ LET r == AwaitResult(HookOf(p_strategies[p_i], p_phase)) IN
        /\ p_log' = Logged(p_log, r, p_i, p_context)
        /\ p_pc' = (IF r.to = "next" THEN "loop" ELSE r.to)
        /\ p_i' = (IF r.to = "next" THEN p_i + 1 ELSE p_i)
        /\ p_error' = r.error
    /\ UNCHANGED <<p_mode, p_phase, p_strategies, p_context, p_yielded, notPipe>>

PipeInit == WireIdle /\ LookupIdle /\ LifeIdle /\ RestIdle

PipeNext == P_Run \/ P_Call \/ P_OtherTask \/ P_Resume

PipeSpec == PipeInit /\ [][PipeNext]_vars

\* ------------------------------------------------------------------ MergeSpec

\* Strategy names, which are also the keys of the overrides dict.
StrategyNames == {"A", "B", "C"}

\* A strategy object given to merge_strategies: its name (None: it has none,
\* or an empty one) and which object it is (the argument it came in and its
\* place there).
Obj(n, origin, i) == [name |-> n, origin |-> origin, at |-> i]

\* A list argument whose strategies have the names ns.
ListOf(ns, origin) == [i \in 1..Len(ns) |-> Obj(ns[i], origin, i)]

\* An item of overrides: the key, and the value, which is None (is_none) or
\* a strategy.
Item(k, is_none, v) == [key |-> k, is_none |-> is_none, value |-> v]

\* The overrides whose items have the keys ks and the values' names vs (None:
\* the value is None).
ItemsOf(ks, vs) ==
    [i \in 1..Len(ks) |-> Item(ks[i], vs[i] = None, Obj(vs[i], "overrides", i))]

\* ordered and index as the function goes: index[n] = 0 when n is no key of
\* the dict, else the place in ordered (counted from 1).
Merged(ordered, index) == [ordered |-> ordered, index |-> index]

\* index = {item.name: idx for idx, item in enumerate(ordered)}
Reindex(ordered) ==
    [n \in StrategyNames |->
        LET at == {i \in 1..Len(ordered) : ordered[i].name = n} IN
        IF at = {} THEN 0 ELSE CHOOSE i \in at : \A j \in at : j <= i]

\* ordered.pop(i)
Pop(ordered, i) == SubSeq(ordered, 1, i - 1) \o SubSeq(ordered, i + 1, Len(ordered))

\* Mutant: the strategy is appended whether or not the name is known.
Put_Append(st, name, strategy) ==
    Merged(Append(st.ordered, strategy), [st.index EXCEPT ![name] = Len(st.ordered) + 1])

\* if name in index: ordered[index[name]] = strategy
\* else: index[name] = len(ordered); ordered.append(strategy)
Put(st, name, strategy) ==
    IF st.index[name] # 0
    THEN Merged([st.ordered EXCEPT ![st.index[name]] = strategy], st.index)
    ELSE Merged(Append(st.ordered, strategy), [st.index EXCEPT ![name] = Len(st.ordered) + 1])

\* The loops over defaults and over additions, from the i-th element on.
RECURSIVE PutAll(_, _, _)
PutAll(st, list, i) ==
    IF i > Len(list) THEN st
    ELSE IF ~TruthyStr(list[i].name) THEN PutAll(st, list, i + 1)
    ELSE PutAll(Put(st, list[i].name, list[i]), list, i + 1)

\* The loop over overrides.items(), from the i-th item on.
RECURSIVE Override(_, _, _)
Override(st, items, i) ==
    IF i > Len(items) THEN st
    ELSE IF items[i].is_none
         THEN IF st.index[items[i].key] # 0
              THEN LET popped == Pop(st.ordered, st.index[items[i].key]) IN
                   Override(Merged(popped, Reindex(popped)), items, i + 1)
              ELSE Override(st, items, i + 1)
    ELSE Override(Put(st, items[i].key, items[i].value), items, i + 1)

merge_strategies(defaults, overrides, additions) ==
    PutAll(Override(PutAll(Merged(<<>>, [n \in StrategyNames |-> 0]), defaults, 1), overrides, 1),
           additions, 1).ordered

\* The sequences of distinct elements of S up to length n: the keys of a dict.
DistinctSeqs(S, n) ==
    {q \in SeqsUpTo(S, n) : \A i, j \in 1..Len(q) : i # j => q[i] # q[j]}

\* The callers' arguments: defaults and additions of named or nameless
\* strategies, overrides with distinct keys, whose values are None or a
\* strategy of any name.
M_Ask ==
    /\ m_pc = "idle"
    /\ \E ds \in SeqsUpTo(StrategyNames, MaxMerge), ks \in DistinctSeqs(StrategyNames, MaxMerge),
          as \in SeqsUpTo(StrategyNames \cup {None}, MaxMerge - 1) :
        \E vs \in {q \in SeqsUpTo(StrategyNames \cup {None}, MaxMerge) : Len(q) = Len(ks)} :
            /\ m_defaults' = ListOf(ds, "defaults")
            /\ m_overrides' = ItemsOf(ks, vs)
            /\ m_additions' = ListOf(as, "additions")
    /\ m_pc' = "called"
    /\ UNCHANGED <<m_out, notMerge>>

M_Merge ==
    /\ m_pc = "called"
    /\ m_pc' = "returned"
    /\ m_out' = merge_strategies(m_defaults, m_overrides, m_additions)
    /\ UNCHANGED <<m_defaults, m_overrides, m_additions, notMerge>>

MergeInit == WireIdle /\ LookupIdle /\ LifeIdle /\ RestIdle

MergeNext == M_Ask \/ M_Merge

MergeSpec == MergeInit /\ [][MergeNext]_vars

\* ------------------------------------------------------------------ DetectSpec

\* Text is a sequence of characters.
\* string.ascii_uppercase and string.ascii_lowercase
ascii_uppercase == <<"A", "B", "C", "D", "E", "F", "G", "H", "I", "J", "K", "L", "M", "N", "O", "P", "Q", "R", "S", "T", "U", "V", "W", "X", "Y", "Z">>
ascii_lowercase == <<"a", "b", "c", "d", "e", "f", "g", "h", "i", "j", "k", "l", "m", "n", "o", "p", "q", "r", "s", "t", "u", "v", "w", "x", "y", "z">>

\* str.lower() of one character
lower_char(c) ==
    LET at == {i \in 1..Len(ascii_uppercase) : ascii_uppercase[i] = c} IN
    IF at = {} THEN c ELSE ascii_lowercase[CHOOSE i \in at : TRUE]

\* Mutant: the text is taken as it is written.
lower_AsWritten(text) == text

\* text.lower()
lower(text) == [i \in 1..Len(text) |-> lower_char(text[i])]

\* sep.join(parts)
RECURSIVE join(_, _)
join(sep, parts) ==
    IF parts = <<>> THEN <<>>
    ELSE IF Len(parts) = 1 THEN parts[1]
    ELSE parts[1] \o sep \o join(sep, Tail(parts))

\* marker in blob
In(marker, blob) ==
    \E i \in 0..(Len(blob) - Len(marker)) : SubSeq(blob, i + 1, i + Len(marker)) = marker

\* The tables hold the entries of the source's tables for the names listed
\* here, with every marker of each.
\* _WAF_HEADER_MARKERS
WAF_HEADER_MARKERS ==
    [
     perimeterx |-> {
        <<"x", "-", "p", "x">>,
        <<"x", "-", "p", "e", "r", "i", "m", "e", "t", "e", "r", "x">>,
        <<"x", "-", "p", "x", "-", "d", "e", "b", "u", "g">>},
     akamai |-> {
        <<"a", "k", "a", "m", "a", "i">>,
        <<"a", "k", "a", "m", "a", "i", "-", "g", "h", "o", "s", "t">>,
        <<"a", "k", "a", "m", "a", "i", "-", "g", "r", "n">>},
     reblaze |-> {
        <<"x", "-", "r", "e", "b", "l", "a", "z", "e">>,
        <<"r", "b", "z", "i", "d">>},
     cloudflare |-> {
        <<"c", "f", "-", "r", "a", "y">>,
        <<"c", "f", "-", "c", "a", "c", "h", "e", "-", "s", "t", "a", "t", "u", "s">>,
        <<"c", "f", "-", "a", "p", "o", "-", "v", "i", "a">>},
     cloudfront |-> {
        <<"x", "-", "a", "m", "z", "-", "c", "f", "-", "i", "d">>,
        <<"x", "-", "a", "m", "z", "-", "c", "f", "-", "p", "o", "p">>}
    ]

\* _WAF_HTML_MARKERS
WAF_HTML_MARKERS ==
    [
     perimeterx |-> {
        <<"c", "a", "p", "t", "c", "h", "a", ".", "p", "e", "r", "i", "m", "e", "t", "e", "r", "x", ".", "n", "e", "t">>,
        <<"p", "e", "r", "i", "m", "e", "t", "e", "r", "x">>,
        <<"p", "x", "-", "c", "a", "p", "t", "c", "h", "a">>,
        <<"p", "x", "-", "b", "l", "o", "c", "k">>,
        <<"p", "x", "B", "l", "o", "c", "k">>,
        <<"p", "x", "-", "c", "d", "n">>},
     kasada |-> {
        <<"k", "a", "s", "a", "d", "a">>,
        <<"k", "p", "s", "d", "k">>},
     radware |-> {
        <<"r", "b", "z">>,
        <<"r", "a", "d", "w", "a", "r", "e">>,
        <<"a", "p", "p", "w", "a", "l", "l">>},
     reblaze |-> {
        <<"r", "e", "b", "l", "a", "z", "e">>,
        <<"r", "b", "z">>},
     cloudflare |-> {
        <<"c", "f", "-", "b", "r", "o", "w", "s", "e", "r", "-", "v", "e", "r", "i", "f", "i", "c", "a", "t", "i", "o", "n">>,
        <<"c", "l", "o", "u", "d", "f", "l", "a", "r", "e">>,
        <<"/", "c", "d", "n", "-", "c", "g", "i", "/">>}
    ]

\* _TECH_HEADER_MARKERS
TECH_HEADER_MARKERS ==
    [
     express |-> {
        <<"x", "-", "p", "o", "w", "e", "r", "e", "d", "-", "b", "y", ":", "e", "x", "p", "r", "e", "s", "s">>},
     rails |-> {
        <<"x", "-", "r", "u", "n", "t", "i", "m", "e">>,
        <<"x", "-", "r", "a", "i", "l", "s">>,
        <<"_", "r", "a", "i", "l", "s">>}
    ]

\* _TECH_HTML_MARKERS
TECH_HTML_MARKERS ==
    [
     laravel |-> {
        <<"l", "a", "r", "a", "v", "e", "l">>,
        <<"c", "s", "r", "f", "-", "t", "o", "k", "e", "n">>},
     rails |-> {
        <<"r", "a", "i", "l", "s">>,
        <<"c", "s", "r", "f", "-", "p", "a", "r", "a", "m">>,
        <<"c", "s", "r", "f", "-", "t", "o", "k", "e", "n">>}
    ]

\* _CAPTCHA_HTML_MARKERS
CAPTCHA_HTML_MARKERS ==
    [
     hcaptcha |-> {
        <<"j", "s", ".", "h", "c", "a", "p", "t", "c", "h", "a", ".", "c", "o", "m", "/", "1", "/", "a", "p", "i", ".", "j", "s">>,
        <<"h", "-", "c", "a", "p", "t", "c", "h", "a">>,
        <<"h", "c", "a", "p", "t", "c", "h", "a">>,
        <<"d", "a", "t", "a", "-", "s", "i", "t", "e", "k", "e", "y">>},
     keycaptcha |-> {
        <<"k", "e", "y", "c", "a", "p", "t", "c", "h", "a">>,
        <<"k", "e", "y", "c", "a", "p", "t", "c", "h", "a", ".", "c", "o", "m">>},
     honeycaptcha |-> {
        <<"h", "o", "n", "e", "y", "c", "a", "p", "t", "c", "h", "a">>}
    ]

\* The names of the tables, in the order of str's comparison.
Alphabetical == <<"akamai", "cloudflare", "cloudfront", "express", "hcaptcha", "honeycaptcha", "kasada", "keycaptcha", "laravel", "perimeterx", "radware", "rails", "reblaze">>

\* Mutant: the hits come in descending order.
sorted_Descending(hits) ==
    LET Hit(n) == n \in hits
        up == SelectSeq(Alphabetical, Hit)
    IN  [i \in 1..Len(up) |-> up[Len(up) + 1 - i]]

\* tuple(sorted(hits))
sorted(hits) ==
    LET Hit(n) == n \in hits IN SelectSeq(Alphabetical, Hit)

\* _contains_any_marker
contains_any_marker(blob, markers) == \E marker \in markers : In(marker, blob)

\* The names of a table one of whose markers is in the blob.
Adds(table, blob) == {n \in DOMAIN table : contains_any_marker(blob, table[n])}

\* An item of the headers dict.
Header(k, v) == [key |-> k, value |-> v]

\* f"{k}:{v}"
Flat(h) == h.key \o <<":">> \o h.value

\* {key.lower(): value for key, value in headers.items()}, from the i-th item
\* on: a key that is already there keeps its place and takes the new value.
RECURSIVE lower_headers(_, _, _)
lower_headers(acc, headers, i) ==
    IF i > Len(headers) THEN acc
    ELSE LET h == Header(lower(headers[i].key), headers[i].value)
             at == {j \in 1..Len(acc) : acc[j].key = h.key}
         IN  IF at = {} THEN lower_headers(Append(acc, h), headers, i + 1)
             ELSE lower_headers([j \in 1..Len(acc) |-> IF j \in at THEN h ELSE acc[j]],
                                headers, i + 1)

\* " ".join(f"{k}:{v}".lower() for k, v in headers.items())
header_blob(headers) == join(<<" ">>, [i \in 1..Len(headers) |-> lower(Flat(headers[i]))])

detect_waf(headers, html_sample) ==
    LET blob == header_blob(lower_headers(<<>>, headers, 1))
        html_blob == lower(html_sample)
    IN  sorted(Adds(WAF_HEADER_MARKERS, blob) \cup Adds(WAF_HTML_MARKERS, html_blob))

detect_tech(headers, html_sample) ==
    LET html_blob == lower(html_sample)
        blob == header_blob(headers)
    IN  sorted(Adds(TECH_HTML_MARKERS, html_blob) \cup Adds(TECH_HEADER_MARKERS, blob))

detect_captcha(headers, html_sample) ==
    sorted(Adds(CAPTCHA_HTML_MARKERS, lower(html_sample)))

\* The headers a response may carry: a header name in capitals, a vendor named
\* in a value, the same header name in another case, a technology named in a
\* value, and the request id of a content delivery network.
HeaderChoices ==
    {Header(<<"X", "-", "P", "X">>, <<"1">>),
     Header(<<"S", "e", "r", "v", "e", "r">>, <<"A", "k", "a", "m", "a", "i", "G", "H", "o", "s", "t">>),
     Header(<<"s", "e", "r", "v", "e", "r">>, <<"n", "g", "i", "n", "x">>),
     Header(<<"X", "-", "P", "o", "w", "e", "r", "e", "d", "-", "B", "y">>, <<"E", "x", "p", "r", "e", "s", "s">>),
     Header(<<"X", "-", "A", "m", "z", "-", "C", "f", "-", "I", "d">>, <<"a", "b", "c">>)}

\* The pieces an HTML sample is made of.
Fragments ==
    {<<"p", "x", "B", "l", "o", "c", "k">>,
     <<"P", "X", "-">>,
     <<"B", "l", "o", "c", "k">>,
     <<"r", "b", "z">>,
     <<"C", "S", "R", "F", "-", "T", "o", "k", "e", "n">>,
     <<"h", "C", "a", "p", "t", "c", "h", "a">>,
     <<"C", "l", "o", "u", "d", "f", "l", "a", "r", "e">>}

\* The headers dicts of up to n items: the keys are distinct.
HeaderDicts(n) ==
    {q \in SeqsUpTo(HeaderChoices, n) : \A i, j \in 1..Len(q) : q[i].key = q[j].key => i = j}

\* The caller's arguments.
D_Ask ==
    /\ d_pc = "idle"
    /\ \E headers \in HeaderDicts(MaxParts), pieces \in SeqsUpTo(Fragments, MaxParts) :
        /\ d_headers' = headers
        /\ d_html_sample' = join(<<>>, pieces)
    /\ d_pc' = "called"
    /\ UNCHANGED <<d_waf_hits, d_tech_hits, d_captcha_hits, notDetect>>

\* waf_hits = detect_waf(...); tech_hits = detect_tech(...);
\* captcha_hits = detect_captcha(...)
D_Detect ==
    /\ d_pc = "called"
    /\ d_waf_hits' = detect_waf(d_headers, d_html_sample)
    /\ d_tech_hits' = detect_tech(d_headers, d_html_sample)
    /\ d_captcha_hits' = detect_captcha(d_headers, d_html_sample)
    /\ d_pc' = "returned"
    /\ UNCHANGED <<d_headers, d_html_sample, notDetect>>

DetectInit == WireIdle /\ LookupIdle /\ LifeIdle /\ RestIdle

DetectNext == D_Ask \/ D_Detect

DetectSpec == DetectInit /\ [][DetectNext]_vars

\* ------------------------------------------------------------------ ReconSpec

\* The exceptions of the GET that preflight_recon_async catches.
\* Mutant: a timeout of the GET is not caught.
PreflightCatches_ClientErrorOnly(kind) == kind = "ClientError"

\* except (aiohttp.ClientError, asyncio.TimeoutError) as exc
PreflightCatches(kind) == kind \in {"ClientError", "asyncio.TimeoutError"}

\* An answer to the GET of preflight: a response (kind "ok") with its headers
\* and its text, or an exception.
Answer(kind, headers, text) == [kind |-> kind, headers |-> headers, text |-> text]

\* The pages a site answers with: nothing, or one of the pieces.
Texts == {<<>>} \cup Fragments

\* The answers to the GET: a page with at most one header, a connection
\* error, a timeout.
Answers ==
    {Answer("ok", h, t) : h \in HeaderDicts(1), t \in Texts}
        \cup {Answer("ClientError", <<>>, <<>>), Answer("asyncio.TimeoutError", <<>>, <<>>)}

\* text[:max_html_bytes]
Truncated(text, max_html_bytes) ==
    IF Len(text) <= max_html_bytes THEN text ELSE SubSeq(text, 1, max_html_bytes)

\* preflight_recon_async(url, timeout_seconds, max_html_bytes), given the
\* answer to its GET: the report when it returns (raised FALSE), the
\* exception when it raises.
preflight_recon_async(answer, max_html_bytes) ==
    IF answer.kind # "ok" /\ ~PreflightCatches(answer.kind)
    THEN [raised |-> TRUE, kind |-> answer.kind, report |-> NoReport]
    ELSE LET headers == IF answer.kind = "ok" THEN lower_headers(<<>>, answer.headers, 1) ELSE <<>>
             html_sample == IF answer.kind = "ok" THEN Truncated(answer.text, max_html_bytes) ELSE <<>>
         IN  [raised |-> FALSE, kind |-> "none",
              report |-> ReconReport(TRUE, headers, html_sample,
                                     detect_waf(headers, html_sample),
                                     detect_tech(headers, html_sample),
                                     detect_captcha(headers, html_sample))]

\* What a hook did: the preflight GET, a vendor skipped because a sibling
\* strategy is configured, a vendor dispatched to its handler, the attempt to
\* close the browser for a vendor.
Did(ev, name) == [ev |-> ev, name |-> name]

\* The keys of the factories a caller gives to ReconStrategy(...).
FactoryArgs == {{}, {"cloudflare"}, {"hcaptcha"}}

\* Mutant: no sibling strategy is ever recognised.
strategy_already_registered_Never(context, name) == FALSE

\* _strategy_already_registered
strategy_already_registered(context, name) == name \in context.siblings

\* The pieces of the live page, in the order the page carries them.
LiveFragments ==
    <<<<"P", "X", "-", "B", "l", "o", "c", "k">>,
      <<"r", "b", "z">>,
      <<"h", "C", "a", "p", "t", "c", "h", "a">>,
      <<"K", "e", "y", "C", "A", "P", "T", "C", "H", "A">>,
      <<"C", "l", "o", "u", "d", "f", "l", "a", "r", "e">>>>

\* The live pages: any of the pieces, each at most once.
LivePages ==
    {LET Kept(f) == \E i \in which : LiveFragments[i] = f
     IN  join(<<>>, SelectSeq(LiveFragments, Kept)) : which \in SUBSET (1..Len(LiveFragments))}

\* The contexts of after_navigation.
Contexts ==
    {NavigationContext(t, p, sib) :
        t \in BOOLEAN, p \in BOOLEAN,
        sib \in {{}, {"perimeterx"}, {"radware", "hcaptcha"}}}

\* ReconStrategy.before_navigation / _before_navigation_async:
\* self._reports[context.instance_id] = preflight_recon(context.url)
R_Before ==
    /\ r_pc = "idle"
    /\ r_phase = "none"
    /\ r_phase' = "before"
    /\ \E answer \in Answers :
        LET r == preflight_recon_async(answer, MaxHtmlBytes) IN
        /\ r_log' = Append(r_log, Did("preflight", answer.kind))
        /\ IF r.raised
           THEN /\ r_pc' = "raised"
                /\ r_error' = [kind |-> r.kind, vendor |-> "none"]
                /\ UNCHANGED r_reports
           ELSE /\ r_reports' = r.report
                /\ UNCHANGED <<r_pc, r_error>>
    /\ UNCHANGED <<r_report, r_context, r_html, r_hits, r_i, r_factories, notRecon>>

\* Mutant: the live page is fetched whatever the context.
CanFetch_Always(context) == TRUE

\* _fetch_html_sync / _fetch_html_async: not (port is None or not
\* context.target_id).
CanFetch(context) == context.port /\ context.target_id

\* ReconStrategy.after_navigation / _after_navigation_async up to the call of
\* _handle_captcha: the report (the cached one, or a preflight made now), then
\* the live HTML (_fetch_html_sync), which is an exception, None, or a page.
R_After ==
    /\ r_pc = "idle"
    /\ r_phase \in {"none", "before"}
    /\ r_phase' = "after"
    /\ \E context \in Contexts, answer \in Answers, fetched \in {"raise", "None"} \cup {"page"} :
       \E page \in IF fetched = "page" THEN LivePages ELSE {<<>>} :
        /\ r_reports.present => answer = Answer("ClientError", <<>>, <<>>)
        /\ r_context' = context
        /\ IF ~context.target_id
           THEN /\ r_pc' = "returned"
                /\ UNCHANGED <<r_report, r_html, r_hits, r_log, r_error>>
           ELSE LET r == IF r_reports.present
                         THEN [raised |-> FALSE, kind |-> "none", report |-> r_reports]
                         ELSE preflight_recon_async(answer, MaxHtmlBytes)
                    log == IF r_reports.present THEN r_log
                           ELSE Append(r_log, Did("preflight", answer.kind))
                IN  /\ r_report' = r.report
                    /\ IF r.raised
                       THEN /\ r_pc' = "raised"
                            /\ r_error' = [kind |-> r.kind, vendor |-> "none"]
                            /\ r_log' = log
                            /\ UNCHANGED <<r_html, r_hits>>
                       ELSE IF ~CanFetch(context)
                       THEN /\ r_pc' = "returned"
                            /\ r_log' = log
                            /\ UNCHANGED <<r_html, r_hits, r_error>>
                       ELSE IF fetched = "None"
                       THEN /\ r_pc' = "returned"
                            /\ r_log' = Append(log, Did("fetch", "None"))
                            /\ UNCHANGED <<r_html, r_hits, r_error>>
                       ELSE IF fetched = "raise"
                       THEN /\ r_pc' = "raised"
                            /\ r_error' = [kind |-> "fetch", vendor |-> "none"]
                            /\ r_log' = Append(log, Did("fetch", "raise"))
                            /\ UNCHANGED <<r_html, r_hits>>
                       ELSE /\ r_pc' = "captcha"
                            /\ r_html' = page
                            /\ r_hits' = detect_captcha(<<>>, page)
                            /\ r_log' = Append(log, Did("fetch", "page"))
                            /\ UNCHANGED r_error
    /\ r_i' = 1
    /\ UNCHANGED <<r_reports, r_factories, notRecon>>

\* Mutant: the error is raised without the attempt to close the browser.
CloseBrowser_NoAttempt(log, name, port) == log

\* _close_browser_sync / _close_browser_async: nothing without a port; else
\* the attempt is made and its exceptions are swallowed, whatever comes of it.
CloseBrowser(log, name, port) == IF ~port THEN log ELSE Append(log, Did("close", name))

\* The exception of a loop that finds no strategy for a vendor.
NoStrategyError(loop) == IF loop = "waf" THEN "BanError" ELSE "CaptchaFoundError"

\* The factories of the loop.
FactoriesOf(loop) == IF loop = "waf" THEN r_factories.waf ELSE r_factories.captcha

\* Where the hook goes when a loop returns: after _handle_captcha comes
\* _handle_waf, after _handle_waf the hook returns.
AfterLoop(loop) ==
    IF loop = "captcha"
    THEN /\ r_pc' = "waf"
         /\ r_hits' = detect_waf(<<>>, r_html)
         /\ r_i' = 1
    ELSE /\ r_pc' = "returned"
         /\ UNCHANGED <<r_hits, r_i>>

\* One pass of the loop of _handle_captcha / _handle_waf (and their async
\* versions) over the hits of the live HTML: the loop is over, or the vendor
\* has a sibling strategy (continue), or it has a factory (the strategy made
\* runs, returns or raises, and the function returns), or the browser is
\* closed and the error raised.
R_Handle ==
    /\ r_pc \in {"captcha", "waf"}
    /\ IF r_i > Len(r_hits)
       THEN /\ AfterLoop(r_pc)
            /\ UNCHANGED <<r_log, r_error>>
       ELSE LET name == r_hits[r_i] IN
            IF strategy_already_registered(r_context, name)
            THEN /\ r_i' = r_i + 1
                 /\ r_log' = Append(r_log, Did("skip", name))
                 /\ UNCHANGED <<r_pc, r_hits, r_error>>
            ELSE IF name \in FactoriesOf(r_pc)
            THEN /\ r_log' = Append(r_log, Did("dispatch", name))
                 /\ \/ /\ AfterLoop(r_pc)
                       /\ UNCHANGED r_error
                    \/ /\ r_pc' = "raised"
                       /\ r_error' = [kind |-> "handler", vendor |-> name]
                       /\ UNCHANGED <<r_hits, r_i>>
            ELSE /\ r_log' = CloseBrowser(r_log, name, r_context.port)
                 /\ r_pc' = "raised"
                 /\ r_error' = [kind |-> NoStrategyError(r_pc), vendor |-> name]
                 /\ UNCHANGED <<r_hits, r_i>>
    /\ UNCHANGED <<r_phase, r_reports, r_report, r_context, r_html, r_factories, notRecon>>

\* A ReconStrategy made with any factories.
ReconInit ==
    /\ WireIdle /\ LookupIdle /\ LifeIdle /\ PipeIdle /\ MergeIdle /\ DetectIdle
    /\ PxIdle /\ ProfileIdle
    /\ ReconFresh
    /\ \E waf \in FactoryArgs, captcha \in FactoryArgs :
        r_factories = ReconStrategy_init(waf, captcha)

ReconNext == R_Before \/ R_After \/ R_Handle

ReconSpec == ReconInit /\ [][ReconNext]_vars

\* ------------------------------------------------------------------ PxSpec

\* A command sent on the socket: its id, its method, and for
\* Input.dispatchMouseEvent the type of the event (else None).
PxCommand(id, method, type) == [id |-> id, method |-> method, type |-> type]

\* Mutant: the strategy acts whatever the context.
PxCanAct_Always(context) == TRUE

\* after_navigation goes on: not (not context.target_id), not (port is None).
PxCanAct(context) == context.target_id /\ context.port

\* Mutant: the button is released before it is pressed.
event_type_ReleaseFirst(stage) ==
    IF stage = "move" THEN "mouseMoved"
    ELSE IF stage = "press" THEN "mouseReleased" ELSE "mousePressed"

\* event_type of the call of _dispatch_mouse_event at each stage of the gesture.
event_type(stage) ==
    IF stage = "move" THEN "mouseMoved"
    ELSE IF stage = "press" THEN "mousePressed" ELSE "mouseReleased"

\* steps = random.randint(12, 22)
StepChoices == 12..22

\* The contexts of the hooks of the strategy.
PxContexts == {NavigationContext(t, p, {}) : t \in BOOLEAN, p \in BOOLEAN}

\* finally: ws.close(), the function returning or raising.
PxLeave(next_pc, error) ==
    /\ x_pc' = next_pc
    /\ x_error' = error
    /\ x_open' = FALSE

\* PerimeterXStrategy.before_navigation
X_Before ==
    /\ x_pc = "idle"
    /\ x_phase = "none"
    /\ x_phase' = "before"
    /\ UNCHANGED <<x_pc, x_context, x_open, x_message_id, x_log, x_button, x_steps, x_step,
                   x_polls, x_passed, x_error, notPx>>

\* PerimeterXStrategy.after_navigation up to the first poll for the button:
\* the checks of the context, _target_websocket_url, create_connection,
\* message_id = 1, and the deadline of _wait_for_button.
X_After ==
    /\ x_pc = "idle"
    /\ x_phase \in {"none", "before"}
    /\ x_phase' = "after"
    /\ \E context \in PxContexts,
          found \in {"ok", "URLError", "RuntimeError"},
          connected \in {"ok", "WebSocketException"},
          clock \in SUBSET {"button"} :
        /\ x_context' = context
        /\ IF ~PxCanAct(context)
           THEN /\ x_pc' = "returned"
                /\ UNCHANGED <<x_open, x_message_id, x_passed, x_error>>
           ELSE IF found # "ok"
           THEN /\ x_pc' = "raised"
                /\ x_error' = [kind |-> found, vendor |-> "none"]
                /\ UNCHANGED <<x_open, x_message_id, x_passed>>
           ELSE IF connected # "ok"
           THEN /\ x_pc' = "raised"
                /\ x_error' = [kind |-> connected, vendor |-> "none"]
                /\ UNCHANGED <<x_open, x_message_id, x_passed>>
           ELSE /\ x_pc' = "poll"
                /\ x_open' = TRUE
                /\ x_message_id' = 1
                /\ x_passed' = clock
                /\ UNCHANGED x_error
    /\ UNCHANGED <<x_log, x_button, x_steps, x_step, x_polls, notPx>>

\* One pass of the loop of _wait_for_button: the deadline has passed and the
\* function gives up (return None, then return and ws.close()), or
\* Runtime.evaluate is sent and answered with a button, with none (sleep), or
\* with an error, or not answered at all.
X_Poll ==
    /\ x_pc = "poll"
    /\ IF DeadlinePassed("button", x_passed)
       THEN /\ PxLeave("returned", x_error)
            /\ UNCHANGED <<x_message_id, x_log, x_button, x_steps, x_step, x_polls, x_passed>>
       ELSE /\ x_log' = Append(x_log, PxCommand(x_message_id, "Runtime.evaluate", None))
            /\ \E answer \in {"button", "none", "error", "timeout"} :
                IF answer = "button"
                THEN /\ x_button' = "found"
                     /\ x_message_id' = NextMessageId(x_message_id)
                     /\ x_pc' = "move"
                     /\ x_steps' \in StepChoices
                     /\ x_step' = 0
                     /\ UNCHANGED <<x_open, x_polls, x_passed, x_error>>
                ELSE IF answer = "none"
                THEN /\ x_message_id' = NextMessageId(x_message_id)
                     /\ x_polls' = x_polls + 1
                     /\ x_passed' \in IF x_polls + 1 >= MaxPolls THEN {{"button"}}
                                      ELSE {x_passed, x_passed \cup {"button"}}
                     /\ UNCHANGED <<x_pc, x_open, x_button, x_steps, x_step, x_error>>
                ELSE /\ PxLeave("raised",
                                [kind |-> IF answer = "error" THEN "RuntimeError"
                                          ELSE "WebSocketTimeoutException",
                                 vendor |-> "none"])
                     /\ UNCHANGED <<x_message_id, x_button, x_steps, x_step, x_polls, x_passed>>
    /\ UNCHANGED <<x_phase, x_context, notPx>>

\* One call of _dispatch_mouse_event: a pass of the loop of
\* _move_mouse_humanlike, the press, or the release, whose returned id
\* _press_and_hold_button drops.  The command is answered, or it fails and the
\* socket is closed on the way out.
X_Dispatch ==
    /\ x_pc \in {"move", "press", "release"}
    /\ x_log' = Append(x_log, PxCommand(x_message_id, "Input.dispatchMouseEvent", event_type(x_pc)))
    /\ \E answer \in {"ok", "error", "timeout"} :
        IF answer = "ok"
        THEN /\ x_message_id' = IF x_pc = "release" THEN x_message_id
                                ELSE NextMessageId(x_message_id)
             /\ IF x_pc = "move"
                THEN /\ x_step' = x_step + 1
                     /\ x_pc' = IF x_step + 1 < x_steps THEN "move" ELSE "press"
                     /\ UNCHANGED <<x_open, x_error>>
                ELSE IF x_pc = "press"
                THEN /\ x_pc' = "release"
                     /\ UNCHANGED <<x_step, x_open, x_error>>
                ELSE /\ PxLeave("returned", x_error)
                     /\ UNCHANGED x_step
        ELSE /\ PxLeave("raised",
                        [kind |-> IF answer = "error" THEN "RuntimeError"
                                  ELSE "WebSocketTimeoutException",
                         vendor |-> "none"])
             /\ UNCHANGED <<x_message_id, x_step>>
    /\ UNCHANGED <<x_phase, x_context, x_button, x_steps, x_polls, x_passed, notPx>>

PxInit == WireIdle /\ LookupIdle /\ LifeIdle /\ RestIdle

PxNext == X_Before \/ X_After \/ X_Poll \/ X_Dispatch

PxSpec == PxInit /\ [][PxNext]_vars

\* ------------------------------------------------------------------ ProfileSpec

\* settings.PROFILE_BASE_DIR, settings.PATH_SEPARATOR, settings.PROFILE_PREFIX
PROFILE_BASE_DIR == <<"/", "t", "m", "p">>
PATH_SEPARATOR == <<"/">>
PROFILE_PREFIX == <<"s", "p", "e", "c", "t", "r", "u", "m", "-", "p", "r", "o", "f", "i", "l", "e">>

\* text.split("/"), cur being the piece that is being read.
RECURSIVE split(_, _)
split(text, cur) ==
    IF text = <<>> THEN <<cur>>
    ELSE IF Head(text) = "/" THEN <<cur>> \o split(Tail(text), <<>>)
    ELSE split(Tail(text), Append(cur, Head(text)))

\* The slashes a text begins with.
RECURSIVE leading(_)
leading(text) ==
    IF text = <<>> \/ Head(text) # "/" THEN 0 ELSE 1 + leading(Tail(text))

\* pathlib.Path(text) on a POSIX system: the root ("//" when the text begins
\* with exactly two slashes) and the parts; empty pieces and "." are dropped,
\* ".." is kept.
Path(text) ==
    LET n == leading(text)
        Kept(piece) == piece # <<>> /\ piece # <<".">>
    IN  [root |-> IF n = 0 THEN <<>> ELSE IF n = 2 THEN <<"/", "/">> ELSE <<"/">>,
         parts |-> SelectSeq(split(text, <<>>), Kept)]

\* str(path)
PathStr(path) ==
    IF path.root = <<>> /\ path.parts = <<>> THEN <<".">>
    ELSE path.root \o join(<<"/">>, path.parts)

\* path.name: the last part, "" when there is none.
PathName(path) == IF path.parts = <<>> THEN <<>> ELSE path.parts[Len(path.parts)]

\* path / name, for a name that holds no separator.
PathDiv(path, name) == Path(PathStr(path) \o <<"/">> \o name)

\* config.profile_dir: None, or a text.
NoDir == [none |-> TRUE, text |-> <<>>]
Dir(text) == [none |-> FALSE, text |-> text]

\* Python truthiness of config.profile_dir.
TruthyDir(profile_dir) == ~profile_dir.none /\ profile_dir.text # <<>>

\* resolve_profile_dir(config, instance_id), and BrowserInstance's copy of it:
\* the path returned, which is also the directory made.
resolve_profile_dir(profile_dir, instance_id) ==
    LET base_dir == Path(PROFILE_BASE_DIR) IN
    IF TruthyDir(profile_dir)
    THEN LET candidate == Path(profile_dir.text)
             candidate_value == PathStr(candidate)
         IN  IF /\ ~StartsWith(candidate_value, PROFILE_BASE_DIR \o PATH_SEPARATOR)
                /\ candidate_value # PROFILE_BASE_DIR
             THEN PathStr(PathDiv(base_dir, PathName(candidate)))
             ELSE PathStr(candidate)
    ELSE PathStr(PathDiv(base_dir, PROFILE_PREFIX \o <<"-">> \o instance_id))

\* The pieces a configured profile directory is written with.
Segments ==
    {<<>>, <<".">>, <<".", ".">>, <<"t", "m", "p">>, <<"t", "m", "p", "x">>, <<"e", "t", "c">>}

\* The values of config.profile_dir: None, or pieces joined by "/".
ProfileDirs == {NoDir} \cup {Dir(join(<<"/">>, q)) : q \in SeqsUpTo(Segments, MaxSegs)}

\* The ids of instances (uuid4().hex[:8] in the program).
InstanceIds == {<<"a", "1">>, <<"b", "2">>}

\* An instance of the blocking or of the asyncio binding is built:
\* self.profile_dir = resolve_profile_dir(config, self.id)
F_Resolve ==
    /\ f_pc = "idle"
    /\ \E profile_dir \in ProfileDirs, instance_id \in InstanceIds :
        /\ f_profile_dir' = profile_dir
        /\ f_out' = resolve_profile_dir(profile_dir, instance_id)
        /\ f_made' = {resolve_profile_dir(profile_dir, instance_id)}
    /\ f_pc' = "resolved"
    /\ UNCHANGED notProfile

\* A BrowserInstance of spectrum.instance is built:
\* self.profile_dir = self._resolve_profile_dir()
F_ResolveOwn ==
    /\ f_pc = "idle"
    /\ \E profile_dir \in ProfileDirs, instance_id \in InstanceIds :
        /\ f_profile_dir' = profile_dir
        /\ f_out' = resolve_profile_dir(profile_dir, instance_id)
        /\ f_made' = {resolve_profile_dir(profile_dir, instance_id)}
    /\ f_pc' = "resolved_own"
    /\ UNCHANGED notProfile

ProfileInit == WireIdle /\ LookupIdle /\ LifeIdle /\ RestIdle

ProfileNext == F_Resolve \/ F_ResolveOwn

ProfileSpec == ProfileInit /\ [][ProfileNext]_vars

\* ------------------------------------------------------------------ claims: transport

\* The frame w_frame answers the command in flight: it is a JSON object whose id
\* is the id of the request.
WireMatch == ~w_frame.raw_empty /\ w_frame.id = w_message_id

\* C2: a command returns only the result of a frame whose id is the id of its
\* own request, and a frame with another id, with no id, or empty, never ends
\* the command: it is dropped and the command goes on waiting (or times out).
C2_ReturnsOnlyOwnReply ==
    /\ w_out.kind = "result" =>
            /\ WireMatch
            /\ w_out.value = (IF w_frame.has_result THEN w_frame.result ELSE EmptyObj)
    /\ ~WireMatch => w_out.kind \in {"none", "timeout"}

\* C2's case: the second command of a socket returned its own result after a
\* reply to another id had been discarded.
C2_Witness ==
    /\ w_out.kind = "result"
    /\ w_message_id = 2
    /\ w_skipped
    /\ w_frame.has_result
    /\ w_out.value \in TargetPayloads

\* C3: the reply to the command fails it with the reply's error payload when
\* it has an error key (a result beside it changes nothing) and otherwise
\* succeeds with its result, {} when there is none; only the reply to the
\* command's own id can fail it.
C3_ErrorReplyFails ==
    /\ w_out.kind = "error" => WireMatch /\ w_frame.has_error
    /\ WireMatch =>
            IF w_frame.has_error
            THEN w_out = Failed("error", w_frame.error)
            ELSE w_out = Result(IF w_frame.has_result THEN w_frame.result ELSE EmptyObj)

\* C3's case: a reply with both an error and a result failed the command,
\* after a reply to another id had been dropped.
C3_Witness ==
    /\ w_out.kind = "error"
    /\ w_out.error = "e1"
    /\ w_frame.has_result
    /\ w_frame.result \in TargetPayloads
    /\ w_skipped

\* C4: a command that has been sent ends (with its reply, or with a timeout
\* when the reply never comes): it does not wait forever.
C4_EveryCommandEnds == (w_pc = "recv") ~> (w_pc # "recv")

\* C5: the commands sent on one socket carry the ids 1, 2, 3, ... in order:
\* the first command of every socket has id 1 and each further one the
\* previous id plus one.
C5_IdsPerConnection == \A i \in 1..Len(w_ids) : w_ids[i] = i

\* C5's case: a second command has been sent on a socket.
C5_Witness == w_pc = "recv" /\ Len(w_ids) = 2 /\ w_message_id = 2

\* ------------------------------------------------------------------ claims: target directory

\* The descriptor names the target: by its id or by its legacy targetId.
Names(entry, target_id) == entry.id = target_id \/ entry.targetId = target_id

\* C6: the lookup returns the debugger URL only of a descriptor whose id (or
\* legacy targetId) is the requested id, and a list with no such descriptor
\* fails with "Target not found": the URL of another target is never returned.
C6_LookupReturnsRequestedTarget ==
    /\ l_out.kind = "result" =>
            \E i \in 1..Len(l_data) :
                /\ Names(l_data[i], l_target_id)
                /\ l_data[i].webSocketDebuggerUrl = l_out.value
    /\ (l_out.kind # "none" /\ \A i \in 1..Len(l_data) : ~Names(l_data[i], l_target_id)) =>
            l_out = LookupError("Target not found")

\* C6's case: the requested target is the second descriptor, found by its
\* legacy targetId, behind a descriptor of another target with another URL.
C6_Witness ==
    /\ Len(l_data) = 2
    /\ l_target_id = "t2"
    /\ l_data[1] = Entry("t1", None, "w1")
    /\ l_data[2] = Entry(None, "t2", "w2")
    /\ l_out = Found("w2")

\* ------------------------------------------------------------------ claims: lifecycle

\* The operation name has ended (returned or raised).
Ended(name) == op.name = name /\ pc = "idle"

\* C1: goto called with an empty url raises ValueError before anything else
\* is done: no subprocess spawned, no HTTP request, no socket opened, no
\* command sent, and process, current_target_id and current_url as they were.
C1_EmptyUrlRejectedFirst ==
    (op.name = "goto" /\ ~TruthyUrl(op.url)) =>
        /\ pc = "idle"
        /\ out.kind = "ValueError"
        /\ io = {}
        /\ ~ws_open
        /\ sent = NoCommand
        /\ Snapshot(process, current_target_id, current_url) = before

\* An empty url given to an instance that has a target and whose process has
\* exited (so that start would spawn).
C1_Witness ==
    /\ Ended("goto")
    /\ op.url = EmptyUrl
    /\ out.kind = "ValueError"
    /\ before.process = "exited"
    /\ current_target_id = "t1"
    /\ current_url = UrlA

\* C7: content called while current_target_id is None (or empty) raises
\* RuntimeError "No current target" without starting the subprocess and
\* without any HTTP request or socket.
C7_ContentNeedsTarget ==
    (op.name = "content" /\ ~TruthyStr(before.current_target_id)) =>
        /\ pc = "idle"
        /\ out = Exc("RuntimeError", "No current target; call goto() first")
        /\ io = {}
        /\ ~ws_open
        /\ sent = NoCommand
        /\ Snapshot(process, current_target_id, current_url) = before

\* content refused after a goto whose reply carried no targetId, the process
\* having exited since (so that start would spawn).
C7_Witness ==
    /\ Ended("content")
    /\ out.kind = "RuntimeError"
    /\ before.current_target_id = None
    /\ before.current_url = UrlA
    /\ before.process = "exited"

\* C8: when goto(url) returns, current_url is url, current_target_id is the
\* targetId of the result matched for the Target.createTarget command that
\* this call sent with url, and that result is what goto returns; whatever
\* target the instance had before.
C8_GotoRecordsCreatedTarget ==
    (Ended("goto") /\ out.kind = "ok") =>
        /\ sent = Command(1, "Target.createTarget", op.url, None)
        /\ "ws" \in io
        /\ out.value = reply
        /\ current_target_id = reply.targetId
        /\ current_url = op.url

\* A second successful goto: the target and the url of the last one replace
\* those of the first.
C8_Witness ==
    /\ Ended("goto")
    /\ out.kind = "ok"
    /\ before.current_target_id = "t1"
    /\ before.current_url = UrlA
    /\ current_target_id = "t2"
    /\ current_url = UrlB

\* C9: when content returns, it returns the outerHTML of the result matched
\* for DOM.getOuterHTML, which was sent with the root node id of the result
\* matched for DOM.getDocument; an ended content that read a document without
\* node id, or an outerHTML-less result, has raised RuntimeError, returned no
\* string, and in the first case never sent DOM.getOuterHTML.
C9_ContentReturnsOuterHtml ==
    /\ (Ended("content") /\ out.kind = "ok") =>
            /\ TruthyNode(document.nodeId)
            /\ sent.method = "DOM.getOuterHTML"
            /\ sent.nodeId = document.nodeId
            /\ reply.outerHTML \in Htmls
            /\ out.html = reply.outerHTML
    /\ (Ended("content") /\ node_id # Unbound /\ ~TruthyNode(document.nodeId)) =>
            /\ out = Exc("RuntimeError", "Missing document node id")
            /\ sent.method = "DOM.getDocument"
    /\ (Ended("content") /\ outer_html # Unbound /\ reply.outerHTML = None) =>
            out = Exc("RuntimeError", "Missing page content result")

\* content has returned the HTML h2 read for node n2.
C9_Witness ==
    /\ Ended("content")
    /\ out.kind = "ok"
    /\ out.html = "h2"
    /\ sent.nodeId = "n2"
    /\ document.nodeId = "n2"

\* C10 as stated: a close that follows a close sends no terminate and no kill.
C10_LaterCloseSendsNothing ==
    (op.name = "close" /\ op.prev = "close") => signals = <<>>

\* C10, amended: close never raises; it sends terminate only to a process it
\* finds alive, and kill only after that terminate; called on an instance
\* that never started or whose process has exited, it sends nothing and
\* changes nothing.  A close that follows a close which had to kill may find
\* the process still alive.
C10_CloseIsSafeToRepeat ==
    (op.name = "close") =>
        /\ pc = "idle"
        /\ out = Ok(EmptyObj)
        /\ io = {}
        /\ signals \in {<<>>, <<"terminate">>, <<"terminate", "kill">>}
        /\ (before.process # "running") =>
                (signals = <<>> /\ process = before.process)
        /\ (before.process = None) <=> (process = None)
        /\ current_target_id = before.current_target_id
        /\ current_url = before.current_url

\* A close after a close, on a process that had exited.
C10_Witness ==
    /\ op.name = "close"
    /\ op.prev = "close"
    /\ before.process = "exited"
    /\ signals = <<>>
    /\ current_target_id = "t1"

\* C11 as stated: once close has completed on a started instance and its
\* process has exited, the next start, goto or content spawns no subprocess.
C11_ClosedIsTerminal ==
    (op.prev = "close" /\ before.process = "exited") => "spawn" \notin io

\* C12: start spawns exactly when the instance has no process or finds its
\* process exited, and is a no-op while the process is alive; so the instance
\* never has two live subprocesses: the spawned and not exited ones are the
\* one its handle holds, if any.
C12_AtMostOneLiveProcess ==
    /\ live = (IF process = "running" THEN 1 ELSE 0)
    /\ (op.name = "start" /\ before.process # "running") => "spawn" \in io
    /\ (op.name \in {"start", "goto", "content"} /\ "spawn" \notin io) =>
            process = before.process

\* A start, after a goto, that found the process alive and did nothing.
C12_Witness ==
    /\ op.name = "start"
    /\ op.prev = "goto"
    /\ before.process = "running"
    /\ io = {}
    /\ process = "running"
    /\ live = 1

\* The last exception among the answers, None if there is none.
RECURSIVE LastTransportError(_, _)
LastTransportError(answers, b) ==
    IF answers = <<>> THEN None
    ELSE IF answers[Len(answers)] \in PollErrors(b) THEN answers[Len(answers)]
    ELSE LastTransportError(SubSeq(answers, 1, Len(answers) - 1), b)

C14_ReadinessTimeoutsSwallowed ==
    (Ended("content") /\ sent.method \in {"Page.enable", "Page.setLifecycleEventsEnabled"}) =>
        out.kind \notin {"WebSocketTimeoutException", "TimeoutError"}

\* ------------------------------------------------------------------ claims: pipeline

\* C15 as stated: when goto returns, every strategy of the instance's list
\* has had its hooks called.
C15_GotoRunsPipeline ==
    (Ended("goto") /\ out.kind = "ok") =>
        \A n \in 1..Len(p_strategies) :
            \E k \in 1..Len(p_log) : p_log[k].ev = "start" /\ p_log[k].i = n

\* C16: in a run of the pipeline, blocking or asyncio, the hooks start in list
\* order (the n-th call is the n-th strategy's) and a hook starts only right
\* after the one before it has completed; while the run is suspended, the
\* hook it awaits is the last one started.
C16_HooksInOrderOneAtATime ==
    /\ \A k \in 1..Len(p_log) :
            p_log[k].ev = "start" =>
                /\ p_log[k].i = Cardinality({j \in 1..k : p_log[j].ev = "start"})
                /\ k > 1 => (p_log[k - 1].ev = "end" /\ p_log[k - 1].i = p_log[k].i - 1)
    /\ p_pc = "await" => p_log[Len(p_log)] = Event("start", p_i, p_context)

\* An asyncio run of two hooks, the first an awaitable during whose
\* suspension another task ran, has returned.
C16_Witness ==
    /\ p_pc = "returned"
    /\ p_mode = "async"
    /\ p_yielded
    /\ Len(p_strategies) = 2
    /\ HookOf(p_strategies[1], p_phase) = "awaitable"
    /\ Len(p_log) = 4

\* C17: a failure is the last thing a run does: it has raised, and no hook
\* was called after it; no hook is called twice in a run.
C17_FailFast ==
    /\ \A k \in 1..Len(p_log) :
            p_log[k].ev = "fail" => (k = Len(p_log) /\ p_pc = "raised" /\ p_error # None)
    /\ p_pc = "raised" => (p_log # <<>> /\ p_log[Len(p_log)].ev = "fail")
    /\ \A j, k \in 1..Len(p_log) :
            (p_log[j].ev = "start" /\ p_log[k].ev = "start" /\ j # k) => p_log[j].i # p_log[k].i

\* The first of two hooks raised; the second, that would return, was not called.
C17_Witness ==
    /\ p_pc = "raised"
    /\ Len(p_strategies) = 2
    /\ HookOf(p_strategies[1], p_phase) = "raise"
    /\ HookOf(p_strategies[2], p_phase) = "return"
    /\ p_log = <<Event("start", 1, p_context), Event("fail", 1, p_context)>>


\* ------------------------------------------------------------------ claims: strategy registry

\* The greatest place of a non-empty set of places.
LastOf(places) == CHOOSE i \in places : \A j \in places : j <= i

\* The strategies that the last write for the name n leaves in the list: an
\* addition named n, else the overrides item for n (its key is n, or its
\* value is a strategy named n; nothing when the value is None), else a
\* default named n.
Written(n) ==
    LET adds == {i \in 1..Len(m_additions) : m_additions[i].name = n}
        ovs == {i \in 1..Len(m_overrides) :
                    \/ m_overrides[i].key = n
                    \/ ~m_overrides[i].is_none /\ m_overrides[i].value.name = n}
        defs == {i \in 1..Len(m_defaults) : m_defaults[i].name = n}
    IN  IF adds # {} THEN {m_additions[LastOf(adds)]}
        ELSE IF ovs # {}
             THEN IF m_overrides[LastOf(ovs)].is_none THEN {}
                  ELSE {m_overrides[LastOf(ovs)].value}
        ELSE IF defs # {} THEN {m_defaults[LastOf(defs)]}
        ELSE {}

\* C18: whatever the defaults, the overrides and the additions, the list that
\* merge_strategies returns holds no two strategies of one name, and the
\* strategy it holds for a name is the last one written for that name
\* (additions over overrides over defaults).
C18_NamesUniqueLastWins ==
    m_pc = "returned" =>
        /\ \A i, j \in 1..Len(m_out) : m_out[i].name = m_out[j].name => i = j
        /\ \A i \in 1..Len(m_out) : m_out[i] \in Written(m_out[i].name)

\* The same, for overrides whose every strategy is filed under its own name.
C18_WhenKeysAreNames ==
    (m_pc = "returned"
        /\ \A i \in 1..Len(m_overrides) :
            m_overrides[i].is_none \/ m_overrides[i].value.name = m_overrides[i].key) =>
        /\ \A i, j \in 1..Len(m_out) : m_out[i].name = m_out[j].name => i = j
        /\ \A i \in 1..Len(m_out) : m_out[i] \in Written(m_out[i].name)


\* merge(default=[A,B], overrides={A: null, C: X}, additions=[B2]), where B2
\* carries the name of B, has returned.
C19_Merged ==
    /\ m_pc = "returned"
    /\ m_defaults = ListOf(<<"A", "B">>, "defaults")
    /\ m_overrides = ItemsOf(<<"A", "C">>, <<None, "C">>)
    /\ m_additions = ListOf(<<"B">>, "additions")

\* C19, as stated: that merge yields [B, X, B2].
C19_YieldsBXB2 ==
    C19_Merged => m_out = <<m_defaults[2], m_overrides[2].value, m_additions[1]>>

\* C19, amended: that merge yields [B2, X]; B2 takes the place of B, whose
\* name it carries, and B is gone.
C19_YieldsB2X ==
    C19_Merged => m_out = <<m_additions[1], m_overrides[2].value>>

C19_Witness ==
    /\ C19_Merged
    /\ Len(m_out) = 2


\* ------------------------------------------------------------------ claims: detection

\* The marker occurs in the blob as a substring, letters compared without
\* regard to case.
Occurs(marker, blob) == In(lower(marker), lower(blob))

\* The names of a table at least one of whose markers occurs in the blob.
Hits(table, blob) == {n \in DOMAIN table : \E marker \in table[n] : Occurs(marker, blob)}

\* The headers, flattened: every "name:value", one after the other.
Flattened(headers) == join(<<" ">>, [i \in 1..Len(headers) |-> Flat(headers[i])])

\* The same headers in every order.
Reordered(headers) ==
    {[i \in 1..Len(headers) |-> headers[f[i]]] :
        f \in {g \in [1..Len(headers) -> 1..Len(headers)] :
                  \A i, j \in 1..Len(headers) : g[i] = g[j] => i = j}}

\* C20, the HTML tables: with no headers, a name is a hit exactly when one of
\* its markers occurs, without regard to case, in the HTML sample.
C20_HtmlMarkers ==
    (d_pc = "returned" /\ d_headers = <<>>) =>
        /\ d_waf_hits = sorted(Hits(WAF_HTML_MARKERS, d_html_sample))
        /\ d_tech_hits = sorted(Hits(TECH_HTML_MARKERS, d_html_sample))
        /\ d_captcha_hits = sorted(Hits(CAPTCHA_HTML_MARKERS, d_html_sample))

\* C20, the header tables: with an empty HTML sample, a name is a hit exactly
\* when one of its markers occurs, without regard to case, in the flattened
\* headers.
C20_HeaderMarkers ==
    (d_pc = "returned" /\ d_html_sample = <<>>) =>
        /\ d_waf_hits = sorted(Hits(WAF_HEADER_MARKERS, Flattened(d_headers)))
        /\ d_tech_hits = sorted(Hits(TECH_HEADER_MARKERS, Flattened(d_headers)))

\* C20, the order of the headers: the same headers in another order give the
\* same hits.
C20_HeaderOrder ==
    d_pc = "returned" =>
        \A headers \in Reordered(d_headers) :
            /\ detect_waf(headers, d_html_sample) = d_waf_hits
            /\ detect_tech(headers, d_html_sample) = d_tech_hits
            /\ detect_captcha(headers, d_html_sample) = d_captcha_hits

\* C20: detection is by substring and without regard to case.  For each of
\* the WAF, technology and CAPTCHA tables a name is a hit if and only if one
\* of its markers occurs, letters compared without regard to case, in the
\* blob the table is for (the flattened headers, or the HTML sample); the
\* hits come back sorted and without duplicates, and they do not depend on
\* the order of the headers.
C20_Detection ==
    d_pc = "returned" =>
        /\ d_waf_hits = sorted(Hits(WAF_HEADER_MARKERS, Flattened(d_headers))
                               \cup Hits(WAF_HTML_MARKERS, d_html_sample))
        /\ d_tech_hits = sorted(Hits(TECH_HEADER_MARKERS, Flattened(d_headers))
                                \cup Hits(TECH_HTML_MARKERS, d_html_sample))
        /\ d_captcha_hits = sorted(Hits(CAPTCHA_HTML_MARKERS, d_html_sample))
        /\ \A headers \in Reordered(d_headers) :
            /\ detect_waf(headers, d_html_sample) = d_waf_hits
            /\ detect_tech(headers, d_html_sample) = d_tech_hits
            /\ detect_captcha(headers, d_html_sample) = d_captcha_hits


\* The response carries the header X-Amz-Cf-Id: abc.
C21_AmzHeader ==
    \E i \in 1..Len(d_headers) :
        d_headers[i] = Header(<<"X", "-", "A", "m", "z", "-", "C", "f", "-", "I", "d">>, <<"a", "b", "c">>)

\* The HTML sample contains Cloudflare.
C21_CloudflareHtml ==
    In(<<"C", "l", "o", "u", "d", "f", "l", "a", "r", "e">>, d_html_sample)

\* The name is in the WAF hit set.
C21_WafHit(n) == \E i \in 1..Len(d_waf_hits) : d_waf_hits[i] = n

\* No marker of a WAF table occurs in the headers or in the HTML sample.
C21_Unrelated ==
    /\ Hits(WAF_HEADER_MARKERS, Flattened(d_headers)) = {}
    /\ Hits(WAF_HTML_MARKERS, d_html_sample) = {}

\* C21, as stated: a response with the header X-Amz-Cf-Id: abc has
\* "cloudflare" in its WAF hit set, an HTML sample containing Cloudflare has
\* "cloudflare" in its WAF hit set, and headers and HTML without any marker
\* give an empty WAF hit set.
C21_AmzHeaderIsCloudflare ==
    d_pc = "returned" =>
        /\ C21_AmzHeader => C21_WafHit("cloudflare")
        /\ C21_CloudflareHtml => C21_WafHit("cloudflare")
        /\ C21_Unrelated => d_waf_hits = <<>>

\* C21, amended: the header X-Amz-Cf-Id: abc puts "cloudfront" in the WAF hit
\* set (and "cloudflare" only if something else of the response does), an
\* HTML sample containing Cloudflare puts "cloudflare" in it, and headers and
\* HTML without any marker give an empty WAF hit set.
C21_AmzHeaderIsCloudfront ==
    d_pc = "returned" =>
        /\ C21_AmzHeader => C21_WafHit("cloudfront")
        /\ (C21_AmzHeader /\ ~C21_CloudflareHtml) => ~C21_WafHit("cloudflare")
        /\ C21_CloudflareHtml => C21_WafHit("cloudflare")
        /\ C21_Unrelated => d_waf_hits = <<>>

C21_Witness ==
    /\ d_pc = "returned"
    /\ C21_AmzHeader
    /\ C21_CloudflareHtml
    /\ d_waf_hits = <<"cloudflare", "cloudfront">>

\* Headers and an HTML sample without any marker, and no hit.
C21_WitnessUnrelated ==
    /\ d_pc = "returned"
    /\ d_headers # <<>>
    /\ d_html_sample # <<>>
    /\ C21_Unrelated
    /\ d_waf_hits = <<>>


\* ------------------------------------------------------------------ claims: recon strategy

\* C22: preflight never propagates a failure of its GET.  Whether the GET
\* meets a connection error or a timeout, before_navigation returns and the
\* report it stores is a valid one with no headers, an empty HTML sample and
\* three empty hit sets; when the GET succeeds the stored HTML sample is never
\* longer than the cap.
C22_PreflightNeverFails ==
    r_phase = "before" =>
        /\ r_pc # "raised"
        /\ r_reports.present
        /\ r_log[1].name # "ok" => r_reports = ReconReport(TRUE, <<>>, <<>>, <<>>, <<>>, <<>>)
        /\ Len(r_reports.html_sample) <= MaxHtmlBytes

\* The GET timed out, and the empty report is stored.
C22_Witness ==
    /\ r_phase = "before"
    /\ r_log = <<Did("preflight", "asyncio.TimeoutError")>>
    /\ r_reports = ReconReport(TRUE, <<>>, <<>>, <<>>, <<>>, <<>>)

\* The GET succeeded with a page longer than the cap, and the sample is cut.
C22_WitnessCut ==
    /\ r_phase = "before"
    /\ r_log = <<Did("preflight", "ok")>>
    /\ r_reports.html_sample = <<"C", "l", "o", "u">>


\* The names of a tuple of hits.
NamesIn(hits) == {hits[i] : i \in 1..Len(hits)}

\* The hits after_navigation is to act on: those of the report it holds and
\* those of the live HTML.
UnionOfHits ==
    NamesIn(r_report.waf_hits) \cup NamesIn(detect_waf(<<>>, r_html))
        \cup NamesIn(r_report.captcha_hits) \cup NamesIn(detect_captcha(<<>>, r_html))

\* The vendor was skipped as a sibling, dispatched to its handler, or
\* reported after the attempt to close the browser.
Processed(n) ==
    \E i \in 1..Len(r_log) : r_log[i].name = n /\ r_log[i].ev \in {"skip", "dispatch", "close"}

\* after_navigation has fetched the live HTML.
FetchedPage == \E i \in 1..Len(r_log) : r_log[i] = Did("fetch", "page")

\* C23: after_navigation acts on the union of the hits of the cached preflight
\* report and the hits found in the live HTML: when it returns, every WAF or
\* CAPTCHA name of that union, one that only the cached report holds included,
\* has been skipped as a sibling, dispatched to its handler or reported.
C23_ActsOnUnion ==
    (r_phase = "after" /\ r_pc = "returned" /\ FetchedPage) =>
        \A n \in UnionOfHits : Processed(n)

\* The same for the names of the live HTML alone, when no handler was run.
C23_LiveHitsProcessed ==
    (r_phase = "after" /\ r_pc = "returned" /\ FetchedPage
        /\ \A i \in 1..Len(r_log) : r_log[i].ev # "dispatch") =>
        \A n \in NamesIn(detect_waf(<<>>, r_html)) \cup NamesIn(detect_captcha(<<>>, r_html)) :
            Processed(n)


\* The loop of _handle_captcha / _handle_waf is at a vendor that has neither
\* a sibling strategy nor a handler.
AtUnhandledVendor ==
    /\ r_pc \in {"captcha", "waf"}
    /\ r_i <= Len(r_hits)
    /\ r_hits[r_i] \notin r_context.siblings
    /\ r_hits[r_i] \notin FactoriesOf(r_pc)

\* C24: at a detected vendor that has neither a sibling strategy nor a
\* handler, after_navigation first attempts to close the browser and only
\* then fails, with a Ban error for a WAF and a CAPTCHA error for a CAPTCHA,
\* the error naming the vendor; and neither error is ever raised unless the
\* attempt to close the browser was made just before it.
C24_CloseThenFail ==
    /\ [][AtUnhandledVendor =>
            /\ r_log' = Append(r_log, Did("close", r_hits[r_i]))
            /\ r_pc' = "raised"
            /\ r_error' = [kind |-> IF r_pc = "waf" THEN "BanError" ELSE "CaptchaFoundError",
                           vendor |-> r_hits[r_i]]]_vars
    /\ [][(r_error' # r_error /\ r_error'.kind \in {"BanError", "CaptchaFoundError"}) =>
            r_log' = Append(r_log, Did("close", r_error'.vendor))]_vars

\* A Ban error for radware, the browser closed before it.
C24_Witness ==
    /\ r_pc = "raised"
    /\ r_error = [kind |-> "BanError", vendor |-> "radware"]
    /\ r_log[Len(r_log)] = Did("close", "radware")

\* ------------------------------------------------------------------ claims: bindings, failure, deadlines

\* C25 as stated: the blocking and the asyncio binding issue the same CDP
\* commands in the same order: where content, with a url to expect, enters
\* its content-readiness wait, the command that wait sends first is the same
\* in both bindings.
C25_BindingsAgree ==
    (pc = "cr_start" /\ TruthyUrl(current_url)) =>
        wait_for_content_ready_command("sync") = wait_for_content_ready_command("async")

\* C26 as stated: when goto or content, having started the subprocess, fails
\* with a fatal error (the CDP endpoint never reachable, a protocol error, a
\* required field missing), the subprocess has been terminated by the time
\* the error reaches the caller.
C26_FailureClosesProcess ==
    ((Ended("goto") \/ Ended("content")) /\ "http" \in io
        /\ out.kind \in {"TimeoutError", "RuntimeError"}) =>
        (signals # <<>> /\ process # "running")

\* C27: close on a started instance sends terminate only to a process it
\* finds alive, and kill only after terminate and only to a process that did
\* not exit within the grace period (it is still the instance's process when
\* close returns); a process found exited, or one that exits within the grace
\* period, is never killed, and an instance without a running process gets no
\* signal at all.
C27_CloseOrder ==
    Ended("close") =>
        /\ signals \in {<<>>, <<"terminate">>, <<"terminate", "kill">>}
        /\ before.process # "running" => signals = <<>>
        /\ before.process = "running" => process \in {"exited", "running"}
        /\ process = "exited" => "kill" \notin {signals[i] : i \in 1..Len(signals)}
        /\ (before.process = "running" /\ process = "running") =>
                signals = <<"terminate", "kill">>

\* The process outlived the grace period: terminate, then kill.
C27_Witness ==
    /\ Ended("close")
    /\ before.process = "running"
    /\ signals = <<"terminate", "kill">>

\* The process was found exited: no signal.
C27_WitnessExited ==
    /\ Ended("close")
    /\ before.process = "running"
    /\ process = "exited"
    /\ signals = <<>>

\* C29 as stated: the two readiness checks of content share one deadline:
\* once the deadline fixed when the document-URL readiness check started has
\* passed, the content-readiness check is not waiting on a socket.
C29_SharedDeadline ==
    pc \in {"ni_recv", "ni_event", "cr_doc_recv"} => "page" \notin passed

\* The step opens no socket, sends no command and makes no request.
Quiet ==
    /\ sent' = sent
    /\ io' = io
    /\ polls' = polls
    /\ ~ws_open'

\* C28: a readiness poll whose deadline has passed when it is entered, or when
\* its loop comes round, ends at once, with no request made and no socket
\* opened: _wait_for_cdp raises its TimeoutError, the document-URL readiness
\* wait and the load-event wait it calls return to content, which goes on to
\* the content-readiness wait, and the content-readiness wait returns to
\* content, which goes on to extract the HTML.
C28_PastDeadlineEndsAtOnce ==
    /\ [][(pc \in {"goto_cdp", "content_cdp"} /\ "startup" \in passed) =>
            /\ pc' = "idle"
            /\ out' = ExcFrom("TimeoutError", "CDP endpoint did not become available",
                              last_error)
            /\ Quiet]_vars
    /\ [][(pc \in {"dom_loop", "ple_start"} /\ "page" \in passed) =>
            /\ pc' = "cr_start"
            /\ out' = out
            /\ Quiet]_vars
    /\ [][((pc = "cr_loop" /\ "content" \in passed)
             \/ (pc = "cr_start" /\ pc' # "idle" /\ "content" \in passed')) =>
            /\ pc' \in {"extract", "cr_loop"}
            /\ out' = out
            /\ Quiet]_vars

\* goto found the deadline of _wait_for_cdp passed on entry: TimeoutError, and
\* no GET was made.
C28_Witness ==
    /\ Ended("goto")
    /\ out = ExcFrom("TimeoutError", "CDP endpoint did not become available", None)
    /\ polls = <<>>
    /\ "http" \notin io

\* content found the deadline of the document-URL readiness wait passed on
\* entry, and is at the content-readiness wait with no command sent.
C28_WitnessDomReady ==
    /\ pc = "cr_start"
    /\ "page" \in passed
    /\ sent = NoCommand

\* content found the deadline of the content-readiness wait passed on entry,
\* and is about to extract the HTML with no command sent.
C28_WitnessContentReady ==
    /\ pc = "extract"
    /\ passed = {"page", "content"}
    /\ sent = NoCommand

\* C30 as stated: an event of interest read from the socket after the
\* enabling command was sent ends the wait, whatever its place among the
\* replies: no wait for Page.loadEventFired or for networkIdle is still going
\* on with such an event read on its socket.
C30_EventEndsWait ==
    pc \in {"ple_recv", "ni_recv", "ni_event"} => events = {}

\* The part of it that holds: the wait for Page.loadEventFired ends at the
\* event, whatever came before it.
C30_LoadEventEndsWait ==
    pc = "ple_recv" => events = {}

\* ------------------------------------------------------------------ claims: sockets, frame of goto

C31_WitnessRaised ==
    /\ Ended("content")
    /\ out.kind = "RuntimeError"
    /\ sent.method = "Page.setLifecycleEventsEnabled"
    /\ ~ws_open

\* C38: a goto that does not return leaves current_target_id and current_url
\* as they were when it was called, at every step of it and when it has
\* raised; the two change only together, in the step in which a goto returns,
\* to the target id of the result and the url of that goto, so that a target
\* id is always held together with the url of the goto that returned it.
C38_FailedGotoKeepsTarget ==
    /\ []((op.name = "goto" /\ out.kind # "ok") =>
            /\ current_target_id = before.current_target_id
            /\ current_url = before.current_url)
    /\ [][(current_target_id' # current_target_id \/ current_url' # current_url) =>
            /\ op.name = "goto"
            /\ pc' = "idle"
            /\ out'.kind = "ok"
            /\ current_target_id' = out'.value.targetId
            /\ current_url' = op.url]_vars

\* A goto to another url failed on an error frame after an earlier goto had
\* returned a target: the target and its url are those of the earlier goto.
C38_Witness ==
    /\ Ended("goto")
    /\ out.kind = "RuntimeError"
    /\ sent.method = "Target.createTarget"
    /\ HasTarget(current_target_id)
    /\ current_url # op.url

\* ------------------------------------------------------------------ claims: additions and removals

\* The list merge_strategies has built after the defaults and the first n
\* items of the overrides.
AfterOverrides(n) ==
    Override(PutAll(Merged(<<>>, [x \in StrategyNames |-> 0]), m_defaults, 1),
             SubSeq(m_overrides, 1, n), 1).ordered

\* The places of the list that hold a strategy of the name n.
Named(list, n) == {i \in 1..Len(list) : list[i].name = n}

\* The lists an addition may leave, as C32 has it: the addition in the place
\* of an entry of its name, or at the end when there is none.
ByName(list, a) ==
    IF Named(list, a.name) = {} THEN {Append(list, a)}
    ELSE {[list EXCEPT ![i] = a] : i \in Named(list, a.name)}

\* The same for the additions from the i-th on (one without a name is skipped).
RECURSIVE AddedByName(_, _, _)
AddedByName(lists, adds, i) ==
    IF i > Len(adds) THEN lists
    ELSE IF ~TruthyStr(adds[i].name) THEN AddedByName(lists, adds, i + 1)
    ELSE AddedByName(UNION {ByName(l, adds[i]) : l \in lists}, adds, i + 1)

\* The additions are merged by name, and an item mapped to None removes the
\* entry of its name and nothing else.
ByNameThroughout ==
    /\ m_out \in AddedByName({AfterOverrides(Len(m_overrides))}, m_additions, 1)
    /\ \A i \in 1..Len(m_overrides) :
            m_overrides[i].is_none =>
                LET b == AfterOverrides(i - 1)
                    a == AfterOverrides(i)
                    at == Named(b, m_overrides[i].key)
                IN  IF at = {} THEN a = b ELSE a \in {Pop(b, j) : j \in at}

\* C32 as stated: an addition whose name is in the list built so far replaces
\* that entry in place, one with a new name is appended, the other entries
\* keep their order, and an override mapped to None removes exactly the
\* entry of that name (nothing when there is none).
C32_AdditionsByName ==
    m_pc = "returned" => ByNameThroughout

\* The same, for overrides whose every strategy is filed under its own name.
C32_WhenKeysAreNames ==
    (m_pc = "returned"
        /\ \A i \in 1..Len(m_overrides) :
            m_overrides[i].is_none \/ m_overrides[i].value.name = m_overrides[i].key) =>
        ByNameThroughout

\* ------------------------------------------------------------------ claims: siblings, handlers, order

\* The events of the log that act on a vendor.
Acts(ev) == {i \in 1..Len(r_log) : r_log[i].ev = ev}

\* The loop is at a vendor for which a sibling strategy is configured.
AtSibling ==
    /\ r_pc \in {"captcha", "waf"}
    /\ r_i <= Len(r_hits)
    /\ r_hits[r_i] \in r_context.siblings

\* C33: after_navigation never dispatches a handler, never closes the browser
\* and never raises a Ban or CAPTCHA error for a detected vendor that another
\* configured strategy is named after; the loop skips such a name and goes on
\* with the next detected name.
C33_SiblingsSkipped ==
    /\ [](\A i \in Acts("dispatch") \cup Acts("close") : r_log[i].name \notin r_context.siblings)
    /\ [](r_error.kind \in {"BanError", "CaptchaFoundError"} =>
            r_error.vendor \notin r_context.siblings)
    /\ [][AtSibling =>
            /\ r_log' = Append(r_log, Did("skip", r_hits[r_i]))
            /\ r_i' = r_i + 1
            /\ UNCHANGED <<r_pc, r_hits, r_error>>]_vars

\* perimeterx, which has a sibling, was skipped, and the loop went on to
\* radware, for which the call failed.
C33_Witness ==
    /\ r_pc = "raised"
    /\ r_error = [kind |-> "BanError", vendor |-> "radware"]
    /\ "perimeterx" \in r_context.siblings
    /\ \E i \in Acts("skip") : r_log[i].name = "perimeterx" /\ r_log[i + 1] = Did("close", "radware")

\* C34 as stated: one call of after_navigation runs the after_navigation hook
\* of at most one handler strategy.
C34_OneHandlerPerCall == Cardinality(Acts("dispatch")) <= 1

\* What the code keeps: at most one handler for the CAPTCHA names and at most
\* one for the WAF names, the CAPTCHA handler first.
C34_OneHandlerPerClass ==
    /\ Cardinality(Acts("dispatch")) <= 2
    /\ \A i, j \in Acts("dispatch") :
        i < j => /\ r_log[i].name \in NamesIn(detect_captcha(<<>>, r_html))
                 /\ r_log[j].name \in NamesIn(detect_waf(<<>>, r_html))

\* The first of the hits that no sibling strategy is named after, if any.
FirstFree(hits) ==
    LET free == {i \in 1..Len(hits) : hits[i] \notin r_context.siblings}
    IN  IF free = {} THEN None
        ELSE hits[CHOOSE i \in free : \A j \in free : i <= j]

\* Some of the hits has neither a sibling strategy nor a handler.
SomeUnhandled(hits, loop) ==
    \E i \in 1..Len(hits) : hits[i] \notin r_context.siblings \cup FactoriesOf(loop)

\* after_navigation is over, having read the live page.
HandledPage == r_phase = "after" /\ r_pc \in {"returned", "raised"} /\ FetchedPage

\* The hits are in the order of str's comparison.
Ascending(hits) ==
    \A i, j \in 1..Len(hits) : i < j =>
        \E a, b \in 1..Len(Alphabetical) :
            a < b /\ Alphabetical[a] = hits[i] /\ Alphabetical[b] = hits[j]

C39_WitnessLaterHandler ==
    /\ r_pc = "raised"
    /\ r_error = [kind |-> "BanError", vendor |-> "cloudflare"]
    /\ "perimeterx" \in NamesIn(detect_waf(<<>>, r_html)) \cap r_factories.waf
    /\ ~Processed("perimeterx")

\* after_navigation could not read the live page: the context has no target
\* id, the configuration no debugging port, or the document no root node.
CouldNotRead ==
    /\ r_phase = "after"
    /\ \/ ~r_context.target_id
       \/ ~r_context.port
       \/ Acts("fetch") # {} /\ \A i \in Acts("fetch") : r_log[i].name = "None"

\* C40: when after_navigation cannot read the live page it returns, having
\* dispatched no handler, skipped no vendor, attempted no Browser.close and
\* raised no Ban or CAPTCHA error, whatever the cached report holds.
C40_NoPageNoDetection ==
    CouldNotRead =>
        /\ r_pc = "returned"
        /\ Acts("dispatch") \cup Acts("close") \cup Acts("skip") = {}
        /\ r_error = NoFailure
        /\ r_html = <<>>

\* No debugging port, and a cached report that names a WAF: the call returned.
C40_Witness ==
    /\ r_phase = "after"
    /\ r_pc = "returned"
    /\ r_context.target_id /\ ~r_context.port
    /\ r_reports.present /\ r_reports.waf_hits # <<>>
    /\ r_report = r_reports

\* The document had no root node, with the same cached report.
C40_WitnessNoRoot ==
    /\ r_phase = "after"
    /\ r_pc = "returned"
    /\ \E i \in Acts("fetch") : r_log[i] = Did("fetch", "None")
    /\ r_reports.present /\ r_reports.waf_hits # <<>>

\* ------------------------------------------------------------------ claims: press and hold

\* The input events among the commands sent, by their place in x_log.
PxEvents == {i \in 1..Len(x_log) : x_log[i].method = "Input.dispatchMouseEvent"}

\* The input events of one type.
PxTyped(type) == {i \in PxEvents : x_log[i].type = type}

\* The hook has left nothing behind: nothing sent, no socket, no error.
PxSilent == x_log = <<>> /\ ~x_open /\ x_error = NoFailure

\* C35: the PerimeterX strategy is a silent no-op when it cannot act.
\* before_navigation changes nothing; after_navigation returns with nothing
\* sent, no socket open and no error when the context has no target id or the
\* configuration no debugging port; and while it polls for the button no
\* input event has been dispatched, and once the button deadline has passed
\* it returns, closing the socket, with no error and no further command.
C35_SilentNoOp ==
    /\ [][x_phase' = "before" =>
            UNCHANGED <<x_pc, x_context, x_open, x_message_id, x_log, x_button, x_steps,
                        x_step, x_polls, x_passed, x_error>>]_vars
    /\ [](x_phase = "before" => x_pc = "idle" /\ PxSilent)
    /\ []((x_phase = "after" /\ ~(x_context.target_id /\ x_context.port)) =>
            x_pc = "returned" /\ PxSilent)
    /\ [](x_pc = "poll" => PxEvents = {} /\ x_error = NoFailure /\ x_button = None)
    /\ [][(x_pc = "poll" /\ "button" \in x_passed) =>
            /\ x_pc' = "returned"
            /\ x_error' = NoFailure
            /\ ~x_open'
            /\ x_log' = x_log]_vars
    /\ []((x_pc = "returned" /\ x_button = None) =>
            PxEvents = {} /\ x_error = NoFailure /\ ~x_open)

\* The strategy polled for the button, found none before the deadline, and
\* returned.
C35_Witness ==
    /\ x_pc = "returned"
    /\ x_context.target_id /\ x_context.port
    /\ x_button = None
    /\ Len(x_log) >= 2
    /\ \A i \in 1..Len(x_log) : x_log[i].method = "Runtime.evaluate"
    /\ ~x_open /\ x_error = NoFailure

\* The context has a target id and no debugging port, and the hook returned.
C35_WitnessNoPort ==
    /\ x_phase = "after"
    /\ x_pc = "returned"
    /\ x_context.target_id /\ ~x_context.port
    /\ PxSilent

\* C36: the commands of the gesture go out on the one open socket with ids
\* 1, 2, 3, ... over the polls and the events together, the polls first; the
\* events are one or more mouseMoved, then at most one mousePressed, then at
\* most one mouseReleased, never a release before the press nor a move
\* after it; and when the hook returns with the button found it has sent
\* every mouseMoved of the move, exactly one mousePressed and exactly one
\* mouseReleased, and closed the socket.
C36_GestureInOrder ==
    /\ [](\A i \in 1..Len(x_log) : x_log[i].id = i)
    /\ [][x_log' # x_log => (x_open /\ Len(x_log') = Len(x_log) + 1
                              /\ SubSeq(x_log', 1, Len(x_log)) = x_log)]_vars
    /\ [](\A i \in PxEvents : \A j \in 1..Len(x_log) \ PxEvents : j < i)
    /\ [](/\ Cardinality(PxTyped("mousePressed")) <= 1
          /\ Cardinality(PxTyped("mouseReleased")) <= 1
          /\ \A i \in PxTyped("mouseMoved"), j \in PxTyped("mousePressed") : i < j
          /\ \A i \in PxTyped("mousePressed"), j \in PxTyped("mouseReleased") : i < j
          /\ PxTyped("mouseReleased") # {} => PxTyped("mousePressed") # {}
          /\ PxTyped("mousePressed") # {} => PxTyped("mouseMoved") # {}
          /\ PxEvents = PxTyped("mouseMoved") \cup PxTyped("mousePressed")
                            \cup PxTyped("mouseReleased"))
    /\ []((x_pc = "returned" /\ x_button = "found") =>
            /\ Cardinality(PxTyped("mouseMoved")) = x_steps
            /\ x_steps >= 1
            /\ Cardinality(PxTyped("mousePressed")) = 1
            /\ Cardinality(PxTyped("mouseReleased")) = 1
            /\ x_log[Len(x_log)].type = "mouseReleased"
            /\ ~x_open)

\* The button was found at the second poll, and the whole gesture was sent.
C36_Witness ==
    /\ x_pc = "returned"
    /\ x_button = "found"
    /\ x_polls = 1
    /\ Len(x_log) = 2 + x_steps + 2
    /\ x_log[Len(x_log)] = PxCommand(Len(x_log), "Input.dispatchMouseEvent", "mouseReleased")
    /\ x_log[Len(x_log) - 1].type = "mousePressed"

\* ------------------------------------------------------------------ claims: profile directory

\* The parts of a path with every ".." resolved against the part before
\* it (at the root ".." stays at the root), done being the parts resolved.
RECURSIVE Resolved(_, _)
Resolved(parts, done) ==
    IF parts = <<>> THEN done
    ELSE IF Head(parts) = <<".", ".">>
         THEN Resolved(Tail(parts), IF done = <<>> THEN done ELSE SubSeq(done, 1, Len(done) - 1))
         ELSE Resolved(Tail(parts), Append(done, Head(parts)))

\* The absolute path the text is denotes the base directory or a place below it.
UnderBase(text) ==
    LET path == Path(text)
        base == Path(PROFILE_BASE_DIR)
        at == Resolved(path.parts, <<>>)
    IN  /\ path.root = base.root
        /\ Len(at) >= Len(base.parts)
        /\ SubSeq(at, 1, Len(base.parts)) = base.parts

\* The configured profile directory holds a ".." segment.
HasDotDot == \E i \in 1..Len(Path(f_profile_dir.text).parts) :
                Path(f_profile_dir.text).parts[i] = <<".", ".">>

\* C37 as stated: whatever profile directory is configured, the path that
\* resolve_profile_dir returns denotes, once its ".." segments are resolved,
\* the base directory or a place below it.
C37_NeverEscapes == f_pc # "idle" => UnderBase(f_out)

\* What the code keeps: the path returned begins with the base directory as
\* a text, and stays under it when the configured value holds no "..".
C37_UnderBaseAsText ==
    f_pc # "idle" =>
        /\ f_out = PROFILE_BASE_DIR \/ StartsWith(f_out, PROFILE_BASE_DIR \o PATH_SEPARATOR)
        /\ ~HasDotDot => UnderBase(f_out)
        /\ f_made = {f_out}

====
